---------------------------- MODULE Spec2Model ----------------------------
(***************************************************************************)
(* A model of chart.js (src/chart.js): the ChartUtils helpers and the      *)
(* seven chart entry points.                                               *)
(*                                                                         *)
(* JavaScript values are tagged records [kind, val]; an object is a        *)
(* function from its keys to values.  One invocation of an entry point is  *)
(* one action (the script engine runs it to completion); what it does to   *)
(* the outside world (directory, bitmap, canvas, stream, timer, log) is    *)
(* recorded, in order, in the sequence `events'.                           *)
(***************************************************************************)
EXTENDS Integers, Sequences, FiniteSets, TLC

VARIABLES
    hexIn, hexOut,              \* hexToARGB: argument and returned array
    mDefaults, mOptions, mConfig,   \* mergeOptions: arguments and result
    regData, regOut,            \* calculateLinearRegression: argument, result
    phase,                      \* "idle" | "returned": the caller's position
    chart,                      \* the entry point that was called
    options,                    \* its argument
    env,                        \* what the platform does during the call
    config,                     \* the merged configuration
    outPath,                    \* the resolved output path
    result,                     \* the value returned (a path or null)
    outcome,                    \* "return" | "throw"
    events,                     \* the platform calls made, in order
    timers,                     \* the deferred deletions not yet run
    timerEvents,                \* what the deferred deletions did, in order
    inv,                        \* two invocations side by side: each one's position
    heap,                       \* and the objects they have created
    calls,                      \* several calls over time: how many were made
    disk,                       \* the files there are, each with the call that wrote it
    alarms,                     \* the deferred deletions that are pending
    removals,                   \* the files removed, in order
    bandIn, bandOut             \* the confidence bands alone: inputs, pixel intervals

hexVars == <<hexIn, hexOut>>
mergeVars == <<mDefaults, mOptions, mConfig>>
regVars == <<regData, regOut>>
callVars == <<phase, chart, options, env, config, outPath, result, outcome, events,
              timers, timerEvents>>
pairVars == <<inv, heap>>
diskVars == <<calls, disk, alarms, removals>>
bandVars == <<bandIn, bandOut>>
vars == <<hexIn, hexOut, mDefaults, mOptions, mConfig, regData, regOut,
          phase, chart, options, env, config, outPath, result, outcome, events,
          timers, timerEvents, inv, heap, calls, disk, alarms, removals,
          bandIn, bandOut>>

-----------------------------------------------------------------------------
(* JavaScript values *)

UNDEF == [kind |-> "undefined", val |-> 0]
NULL == [kind |-> "null", val |-> 0]
Num(n) == [kind |-> "number", val |-> n]
Bool(b) == [kind |-> "boolean", val |-> b]
\* A string is kept as a TLA+ string (kind "string") or, where the code reads
\* its characters (a colour), as the sequence of its characters (kind "chars").
Str(s) == [kind |-> "string", val |-> s]
Chars(s) == [kind |-> "chars", val |-> s]
\* An array of elements; an object with its own properties and the enumerable
\* properties it inherits, each a function from keys to values.
Arr(a) == [kind |-> "array", val |-> a]
Obj(own, proto) == [kind |-> "object", val |-> [own |-> own, proto |-> proto]]

IsString(v) == v.kind \in {"string", "chars"}

\* ToBoolean: undefined, null, "", 0 and false are falsy; an array (even an
\* empty one) and an object are truthy.
Truthy(v) ==
    CASE v.kind = "undefined" -> FALSE
      [] v.kind = "null" -> FALSE
      [] v.kind = "boolean" -> v.val
      [] v.kind = "number" -> v.val # 0
      [] v.kind = "string" -> v.val # ""
      [] v.kind = "chars" -> v.val # <<>>
      [] OTHER -> TRUE

EmptyObject == [k \in {} |-> UNDEF]

-----------------------------------------------------------------------------
(* ChartUtils.hexToARGB *)

LowerHex == <<"0","1","2","3","4","5","6","7","8","9","a","b","c","d","e","f">>
UpperHex == <<"0","1","2","3","4","5","6","7","8","9","A","B","C","D","E","F">>

\* The value of a hexadecimal digit, -1 for any other character.
DigitValue(c) ==
    IF \E i \in 1..16 : LowerHex[i] = c
    THEN (CHOOSE i \in 1..16 : LowerHex[i] = c) - 1
    ELSE IF \E i \in 1..16 : UpperHex[i] = c
         THEN (CHOOSE i \in 1..16 : UpperHex[i] = c) - 1
         ELSE -1

\* hex.replace(/^#/, ''): one leading '#' is removed.
StripHash(s) == IF Len(s) > 0 /\ s[1] = "#" THEN Tail(s) ELSE s

\* A parsed number is kept in two 16-bit limbs, hi * 65536 + lo, so that the
\* values above 2^31 - 1 that eight digits reach are exact.
RECURSIVE ParseDigits(_, _, _, _)
ParseDigits(s, i, hi, lo) ==
    IF i > Len(s) \/ DigitValue(s[i]) < 0
    THEN [nan |-> (i = 1), hi |-> hi, lo |-> lo]
    ELSE LET t == lo * 16 + DigitValue(s[i])
         IN ParseDigits(s, i + 1, hi * 16 + (t \div 65536), t % 65536)

\* parseInt(s, 16): the longest prefix of hexadecimal digits, NaN if empty.
ParseInt16(s) == ParseDigits(s, 1, 0, 0)

\* ToInt32, the conversion the shift and bitwise operators apply to their
\* operands: modulo 2^32, into -2^31 .. 2^31 - 1; NaN becomes 0.
ToInt32(v) ==
    IF v.nan THEN 0
    ELSE LET h == v.hi % 65536
         IN (IF h >= 32768 THEN h - 65536 ELSE h) * 65536 + v.lo

RECURSIVE Pow2(_)
Pow2(k) == IF k = 0 THEN 1 ELSE 2 * Pow2(k - 1)

\* A shift whose mask was forgotten.
ShiftUnmasked(v, k) == ToInt32(v) \div Pow2(k)

\* (v >> k) & 0xFF: sign-propagating shift, then the low eight bits.
ShiftAndMask(v, k) == (ToInt32(v) \div Pow2(k)) % 256

\* hexToARGB(hex): [ok |-> FALSE] when hex.replace is not callable (hex is not
\* a string), otherwise the array of four channels.
hexToARGB(hex) ==
    IF hex.kind # "chars"
    THEN [ok |-> FALSE, val |-> <<>>]
    ELSE LET v == ParseInt16(StripHash(hex.val))
         IN IF Len(hex.val) = 9
            THEN [ok |-> TRUE,
                  val |-> <<ShiftAndMask(v, 24), ShiftAndMask(v, 16),
                            ShiftAndMask(v, 8), ShiftAndMask(v, 0)>>]
            ELSE [ok |-> TRUE,
                  val |-> <<255, ShiftAndMask(v, 16),
                            ShiftAndMask(v, 8), ShiftAndMask(v, 0)>>]

\* Inputs: '#' followed by up to MaxPairs two-digit pairs, and three values
\* that are not strings.
MaxPairs == 4

HexPairs == {<<"0","0">>, <<"F","F">>, <<"8","0">>, <<"1","1">>, <<"2","2">>,
             <<"3","3">>, <<"7","f">>, <<"a","B">>}

RECURSIVE PairStrings(_)
PairStrings(n) ==
    IF n = 0 THEN {<<>>}
    ELSE {p \o s : p \in HexPairs, s \in PairStrings(n - 1)}

HexInputs ==
    {Chars(<<"#">> \o s) : s \in UNION {PairStrings(n) : n \in 0..MaxPairs}}
    \cup {UNDEF, NULL, Num(5)}

NotCalled == [done |-> FALSE, ret |-> [ok |-> FALSE, val |-> <<>>]]

HexIdle == hexIn = UNDEF /\ hexOut = NotCalled

CallHexToARGB ==
    /\ ~hexOut.done
    /\ hexOut' = [done |-> TRUE, ret |-> hexToARGB(hexIn)]
    /\ UNCHANGED hexIn

-----------------------------------------------------------------------------
(* ChartUtils.mergeOptions *)

\* for (let key in o): the own and the inherited enumerable keys of an
\* object; a primitive has none.
ForInKeys(o) ==
    IF o.kind = "object" THEN DOMAIN o.val.own \cup DOMAIN o.val.proto ELSE {}

\* Object.prototype.hasOwnProperty.call(o, key)
HasOwn(o, key) == o.kind = "object" /\ key \in DOMAIN o.val.own

\* o[key]
Get(o, key) ==
    IF o.kind # "object" THEN UNDEF
    ELSE IF key \in DOMAIN o.val.own THEN o.val.own[key]
    ELSE IF key \in DOMAIN o.val.proto THEN o.val.proto[key]
    ELSE UNDEF

\* A merge that copies every enumerated key, inherited ones too.
mergeOptionsNoOwnCheck(defaults, opts) ==
    LET over == IF Truthy(opts) THEN ForInKeys(opts) ELSE {}
    IN [k \in DOMAIN defaults \cup over |->
            IF k \in over THEN Get(opts, k) ELSE defaults[k]]

\* A merge that keeps the default where the caller's value is undefined.
mergeOptionsSkipUndefined(defaults, opts) ==
    LET over == IF Truthy(opts)
                THEN {k \in ForInKeys(opts) :
                        HasOwn(opts, k) /\ Get(opts, k) # UNDEF}
                ELSE {}
    IN [k \in DOMAIN defaults \cup over |->
            IF k \in over THEN Get(opts, k) ELSE defaults[k]]

\* mergeOptions(defaults, options): every key of defaults, then every own key
\* of options over it.
mergeOptions(defaults, opts) ==
    LET over == IF Truthy(opts)
                THEN {k \in ForInKeys(opts) : HasOwn(opts, k)}
                ELSE {}
    IN [k \in DOMAIN defaults \cup over |->
            IF k \in over THEN Get(opts, k) ELSE defaults[k]]

-----------------------------------------------------------------------------
(* The defaults record of each entry point *)

White == Chars(<<"#","F","F","F","F","F","F">>)
Black == Chars(<<"#","0","0","0","0","0","0">>)

DefaultDeleteDelay == 60000

FunctionGraphDefaults ==
    [path |-> NULL, autoDelete |-> Bool(FALSE), deleteDelay |-> Num(DefaultDeleteDelay),
     width |-> Num(800), height |-> Num(600), scale |-> Num(20),
     backgroundColor |-> White,
     axisColor |-> Chars(<<"#","C","C","C","C","C","C">>),
     lineColor |-> Chars(<<"#","F","F","0","0","0","0">>)]

PolarGraphDefaults ==
    [path |-> NULL, autoDelete |-> Bool(FALSE), deleteDelay |-> Num(DefaultDeleteDelay),
     width |-> Num(1024), height |-> Num(1024), scale |-> Num(20),
     rotations |-> Num(5 * 512),     \* 5 turns, in 512ths of a turn
     backgroundColor |-> White,
     axisColor |-> Chars(<<"#","C","C","C","C","C","C">>),
     lineColor |-> Chars(<<"#","0","0","0","0","F","F">>)]

LineChartDefaults ==
    [path |-> NULL, autoDelete |-> Bool(FALSE), deleteDelay |-> Num(DefaultDeleteDelay),
     width |-> Num(800), height |-> Num(600),
     padding |-> Obj([top |-> Num(50), right |-> Num(50),
                      bottom |-> Num(70), left |-> Num(80)], EmptyObject),
     backgroundColor |-> White,
     lineColor |-> Chars(<<"#","0","0","7","B","F","F">>),
     pointColor |-> Chars(<<"#","D","C","3","5","4","5">>),
     gridColor |-> Chars(<<"#","E","9","E","C","E","F">>),
     textColor |-> Chars(<<"#","4","9","5","0","5","7">>),
     pointRadius |-> Num(8), strokeWidth |-> Num(5)]

PieChartDefaults ==
    [path |-> NULL, autoDelete |-> Bool(FALSE), deleteDelay |-> Num(DefaultDeleteDelay),
     width |-> Num(1200), height |-> Num(800),
     backgroundColor |-> White, textColor |-> Black,
     colors |-> Arr(<<Chars(<<"#","F","F","6","3","8","4">>),
                      Chars(<<"#","3","6","A","2","E","B">>),
                      Chars(<<"#","F","F","C","E","5","6">>),
                      Chars(<<"#","4","B","C","0","C","0">>),
                      Chars(<<"#","9","9","6","6","F","F">>),
                      Chars(<<"#","F","F","9","F","4","0">>)>>)]

BarChartDefaults ==
    [path |-> NULL, autoDelete |-> Bool(FALSE), deleteDelay |-> Num(DefaultDeleteDelay),
     width |-> Num(1080), height |-> Num(720),
     orientation |-> Str("vertical"), title |-> Str(""),
     backgroundColor |-> White,
     barColor |-> Chars(<<"#","4","6","8","2","B","4">>),
     axisColor |-> Chars(<<"#","6","4","6","4","6","4">>),
     textColor |-> Black, titleColor |-> Black]

ScatterPlotDefaults ==
    [path |-> NULL, autoDelete |-> Bool(FALSE), deleteDelay |-> Num(DefaultDeleteDelay),
     width |-> Num(1000), height |-> Num(800), padding |-> Num(100),
     title |-> Str("scatter plot"), xLabel |-> Str("X axis"), yLabel |-> Str("Y axis"),
     pointSize |-> Num(10), fontSize |-> Num(40),
     backgroundColor |-> White, axisColor |-> Black,
     textColor |-> Chars(<<"#","3","3","3","3","3","3">>),
     pointColor |-> Chars(<<"#","F","F","6","3","4","7">>),
     showConfidenceInterval |-> Bool(FALSE),
     regressionLineColor |-> Chars(<<"#","0","0","0","0","F","F">>),
     confidenceIntervalColor |-> Chars(<<"#","4","6","8","2","B","4">>),
     confidenceIntervalResolution |-> Num(100)]

\* A confidence level is kept in hundredths: level 95 is 0.95.
NormalDistributionChartDefaults ==
    [path |-> NULL, autoDelete |-> Bool(FALSE), deleteDelay |-> Num(DefaultDeleteDelay),
     mean |-> Num(0), stdDev |-> Num(1), width |-> Num(1024), height |-> Num(600),
     orientation |-> Str("vertical"), ciResolution |-> NULL,
     backgroundColor |-> White,
     axisColor |-> Chars(<<"#","9","6","9","6","9","6">>),
     lineColor |-> Chars(<<"#","0","0","7","A","F","F">>),
     confidenceLevels |->
        Arr(<<[level |-> 95, color |-> Chars(<<"#","5","0","4","2","8","7","F","5">>)],
              [level |-> 68, color |-> Chars(<<"#","7","8","7","7","B","E","F","D">>)]>>)]

Charts == {"functionGraph", "polarGraph", "lineChart", "pieChart", "barChart",
           "scatterPlot", "normalDistributionChart"}

DefaultsOf(c) ==
    CASE c = "functionGraph" -> FunctionGraphDefaults
      [] c = "polarGraph" -> PolarGraphDefaults
      [] c = "lineChart" -> LineChartDefaults
      [] c = "pieChart" -> PieChartDefaults
      [] c = "barChart" -> BarChartDefaults
      [] c = "scatterPlot" -> ScatterPlotDefaults
      [] c = "normalDistributionChart" -> NormalDistributionChartDefaults

-----------------------------------------------------------------------------
(* ChartUtils.calculateLinearRegression *)

\* The inputs are integers, so every sum is exact; a quotient is kept as a
\* reduced fraction <<numerator, denominator>> with a positive denominator.
Abs(a) == IF a < 0 THEN -a ELSE a

RECURSIVE GCD(_, _)
GCD(a, b) == IF b = 0 THEN a ELSE GCD(b, a % b)

Rat(a, b) ==
    LET g == GCD(Abs(a), Abs(b))
        sgn == IF b < 0 THEN -1 ELSE 1
    IN <<sgn * (a \div g), sgn * (b \div g)>>

RInt(a) == <<a, 1>>
RAdd(p, q) == Rat(p[1] * q[2] + q[1] * p[2], p[2] * q[2])
RSub(p, q) == Rat(p[1] * q[2] - q[1] * p[2], p[2] * q[2])
RMul(p, q) == Rat(p[1] * q[1], p[2] * q[2])

RECURSIVE SumSeq(_)
\* sum of the integers of a sequence, in index order as the loop adds them
SumSeq(q) == IF q = <<>> THEN 0 ELSE SumSeq(SubSeq(q, 1, Len(q) - 1)) + q[Len(q)]

RECURSIVE RSumSeq(_)
RSumSeq(q) ==
    IF q = <<>> THEN RInt(0)
    ELSE RAdd(RSumSeq(SubSeq(q, 1, Len(q) - 1)), q[Len(q)])

MinOf(S) == CHOOSE m \in S : \A v \in S : m <= v
MaxOf(S) == CHOOSE m \in S : \A v \in S : m >= v

\* Number.prototype.toFixed(1), in tenths: the integer n with n / 10 nearest
\* to the value, the larger one of two; the sign is set aside first.
ToFixed1(r) ==
    LET a == Abs(r[1])
        n == (20 * a + r[2]) \div (2 * r[2])
    IN IF r[1] < 0 THEN -n ELSE n

\* maxX - minX || 1
RangeOrOne(lo, hi) == IF hi - lo = 0 THEN 1 ELSE hi - lo

RegNull ==
    [null |-> TRUE, slope |-> RInt(0), intercept |-> RInt(0), n |-> 0,
     meanX |-> RInt(0), Sxx |-> RInt(0), residualVariance |-> RInt(0)]

\* A guard that asks for three points.
TooFewPointsOffByOne(n) == n < 3

\* if (n < 2) return null
TooFewPoints(n) == n < 2

\* denominator = n * sumX2 - sumX * sumX
Denominator(n, sumX, sumX2) == n * sumX2 - sumX * sumX

\* residualStdErr is the square root of residualVariance (ssr / (n - 2)); the
\* root itself is not a fraction, so the radicand is what the record keeps.
calculateLinearRegression(data) ==
    LET n == Len(data)
        sumX == SumSeq([i \in 1..n |-> data[i].x])
        sumY == SumSeq([i \in 1..n |-> data[i].y])
        sumXY == SumSeq([i \in 1..n |-> data[i].x * data[i].y])
        sumX2 == SumSeq([i \in 1..n |-> data[i].x * data[i].x])
        denominator == Denominator(n, sumX, sumX2)
    IN IF TooFewPoints(n) THEN RegNull
       ELSE IF denominator = 0 THEN RegNull
       ELSE LET meanX == Rat(sumX, n)
                meanY == Rat(sumY, n)
                slope == Rat(n * sumXY - sumX * sumY, denominator)
                intercept == RSub(meanY, RMul(slope, meanX))
                DX2(pt) == LET dx == RSub(RInt(pt.x), meanX) IN RMul(dx, dx)
                DY2(pt) == LET dy == RSub(RInt(pt.y),
                                          RAdd(RMul(slope, RInt(pt.x)), intercept))
                           IN RMul(dy, dy)
            IN IF n < 3
               THEN [null |-> FALSE, slope |-> slope, intercept |-> intercept,
                     n |-> n, meanX |-> meanX, Sxx |-> RInt(0),
                     residualVariance |-> RInt(0)]
               ELSE [null |-> FALSE, slope |-> slope, intercept |-> intercept,
                     n |-> n, meanX |-> meanX,
                     Sxx |-> RSumSeq([i \in 1..n |-> DX2(data[i])]),
                     residualVariance |->
                        RMul(RSumSeq([i \in 1..n |-> DY2(data[i])]),
                             Rat(1, n - 2))]

\* Inputs: up to MaxPoints points with coordinates from two small sets.
MaxPoints == 3
XCoords == {-1, 0, 2, 5}
YCoords == {-1, 1, 2}
RegPoints == [x : XCoords, y : YCoords]
RegInputs == UNION {[1..n -> RegPoints] : n \in 0..MaxPoints}

RegIdle == regData = <<>> /\ regOut = [done |-> FALSE, ret |-> RegNull]

CallCalculateLinearRegression ==
    /\ ~regOut.done
    /\ regOut' = [done |-> TRUE, ret |-> calculateLinearRegression(regData)]
    /\ UNCHANGED regData

-----------------------------------------------------------------------------
(* mergeOptions on its own: inputs *)

MaxOwnKeys == 3
MergeOwnKeys == {"width", "path", "title", "extra"}
MergeProtoKeys == {"width", "inherited"}

MergeValues(k) ==
    CASE k = "width" -> {Num(1), UNDEF}
      [] k = "path" -> {Str("out.png"), NULL}
      [] k = "title" -> {Str("T")}
      [] k = "extra" -> {Num(7), UNDEF}
      [] k = "inherited" -> {Num(9)}

ObjectsOver(keys, maxKeys) ==
    UNION {{f \in [D -> UNION {MergeValues(k) : k \in D}] :
                \A k \in D : f[k] \in MergeValues(k)} :
           D \in {D \in SUBSET keys : Cardinality(D) <= maxKeys}}

MergeOptionInputs ==
    {UNDEF, NULL, Num(5)}
    \cup {Obj(own, proto) : own \in ObjectsOver(MergeOwnKeys, MaxOwnKeys),
                            proto \in ObjectsOver(MergeProtoKeys, 2)}

MergeNotCalled == [done |-> FALSE, ret |-> EmptyObject]

MergeIdle == mDefaults = EmptyObject /\ mOptions = UNDEF /\ mConfig = MergeNotCalled

CallMergeOptions ==
    /\ ~mConfig.done
    /\ mConfig' = [done |-> TRUE, ret |-> mergeOptions(mDefaults, mOptions)]
    /\ UNCHANGED <<mDefaults, mOptions>>

-----------------------------------------------------------------------------
(* The platform, as one invocation sees it *)

\* What may go wrong outside the script during a call, and whether the
\* output directory is already there.
Conditions == {"dirExists", "mkdirsThrows", "createBitmapThrows",
               "openThrows", "compressThrows", "closeThrows"}

Ev(op, args) == [op |-> op, args |-> args]

HasEvent(evs, op) == \E i \in 1..Len(evs) : evs[i].op = op
CountEvents(evs, op) == Cardinality({i \in 1..Len(evs) : evs[i].op = op})

\* A piece of straight-line code: the platform calls it made and whether it
\* ended by throwing.
Done(evs) == [ev |-> evs, thrown |-> FALSE]
Throws(evs) == [ev |-> evs, thrown |-> TRUE]

\* a; b
Then(a, b) == IF a.thrown THEN a ELSE [ev |-> a.ev \o b.ev, thrown |-> b.thrown]

\* config.key: undefined when the key is missing
CGet(cfg, key) == IF key \in DOMAIN cfg THEN cfg[key] ELSE UNDEF

\* ToNumber(v) <= 0, as the comparison in scheduleAutoDelete evaluates it:
\* null and "" convert to 0, undefined to NaN (every comparison false).
LessOrEqualZero(v) ==
    CASE v.kind = "number" -> v.val <= 0
      [] v.kind = "null" -> TRUE
      [] v.kind = "boolean" -> ~v.val
      [] v.kind = "string" -> v.val = ""
      [] OTHER -> FALSE

\* ChartUtils.ensureDirectoryExists(path): whatever goes wrong is caught and
\* logged inside.
ensureDirectoryExists(path, e) ==
    IF "mkdirsThrows" \in e.conds THEN Done(<<Ev("log", <<"ensureDirectoryExists">>)>>)
    ELSE IF "dirExists" \in e.conds THEN Done(<<>>)
    ELSE Done(<<Ev("mkdirs", <<path>>)>>)

\* Bitmap.createBitmap(width, height, ARGB_8888) throws unless both are
\* positive numbers (and whenever the platform cannot allocate).
createBitmap(width, height, e) ==
    IF \/ "createBitmapThrows" \in e.conds
       \/ width.kind # "number" \/ height.kind # "number"
       \/ width.val <= 0 \/ height.val <= 0
    THEN Throws(<<>>)
    ELSE Done(<<Ev("createBitmap", <<width.val, height.val>>)>>)

\* The hexToARGB calls of an entry point, in order: the first that throws
\* ends them.
RECURSIVE DecodeColors(_)
DecodeColors(colors) ==
    IF colors = <<>> THEN Done(<<>>)
    ELSE IF hexToARGB(Head(colors)).ok THEN DecodeColors(Tail(colors))
    ELSE Throws(<<>>)

\* The callback given to setTimeout: try { FileStream.remove(path);
\* Log.i(...) } catch (e) { }.  A removal that throws is recorded as the
\* platform's "remove throws"; the catch block is empty.
DeferredDelete(path, removeThrows) ==
    IF removeThrows THEN <<Ev("remove throws", <<path>>)>>
    ELSE <<Ev("remove", <<path>>), Ev("log", <<"deleted">>)>>

\* The deletions an invocation left pending: the paths of its setTimeout calls
PendingTimers(evs) ==
    LET scheduled == SelectSeq(evs, LAMBDA ev : ev.op = "setTimeout")
    IN [i \in 1..Len(scheduled) |-> scheduled[i].args[1]]

\* ChartUtils.scheduleAutoDelete(path, delay)
scheduleAutoDelete(path, delay) ==
    IF ~Truthy(path) \/ LessOrEqualZero(delay) THEN Done(<<>>)
    ELSE Done(<<Ev("setTimeout", <<path, delay>>)>>)

\* stream = new FileOutputStream(path); bitmap.compress(PNG, 100, stream);
\* if (config.autoDelete) scheduleAutoDelete(path, config.deleteDelay)
SaveAndSchedule(path, cfg, e) ==
    Then(IF "openThrows" \in e.conds THEN Throws(<<>>)
         ELSE Done(<<Ev("open", <<path>>)>>),
    Then(IF "compressThrows" \in e.conds THEN Throws(<<>>)
         ELSE Done(<<Ev("compress", <<path>>)>>),
         IF Truthy(CGet(cfg, "autoDelete"))
         THEN scheduleAutoDelete(path, CGet(cfg, "deleteDelay"))
         ELSE Done(<<>>)))

\* finally { if (stream) stream.close(); if (bitmap) bitmap.recycle(); }
\* A close() that throws leaves the block at once.
FinallyBlock(evs, e) ==
    Then(IF HasEvent(evs, "open")
         THEN IF "closeThrows" \in e.conds THEN Throws(<<>>)
              ELSE Done(<<Ev("close", <<>>)>>)
         ELSE Done(<<>>),
         IF HasEvent(evs, "createBitmap")
         THEN Done(<<Ev("recycle", <<>>)>>)
         ELSE Done(<<>>))

\* What the caller gets from one invocation.
Invocation(cfg, path, res, out, evs) ==
    [config |-> cfg, path |-> path, result |-> res, outcome |-> out, events |-> evs]

\* The validation failures: Log.e(...); return null
ReturnNull(cfg, path, why) ==
    Invocation(cfg, path, NULL, "return", <<Ev("log", <<why>>)>>)

\* try { body; return path } catch (e) { Log.e(...); return null }
\* finally { ... }: an exception of the finally block replaces the return.
TryCatchFinally(cfg, path, body, e) ==
    LET tried == IF body.thrown
                 THEN body.ev \o <<Ev("log", <<"catch">>)>>
                 ELSE body.ev
        fin == FinallyBlock(body.ev, e)
    IN Invocation(cfg, path,
                  IF fin.thrown THEN UNDEF ELSE IF body.thrown THEN NULL ELSE path,
                  IF fin.thrown THEN "throw" ELSE "return",
                  tried \o fin.ev)

\* if (!config.path) config.path = `sdcard/msgbot/charts/${name}_${Date.now()}.png`
ResolvedPath(cfg, name, e) ==
    IF Truthy(CGet(cfg, "path")) THEN CGet(cfg, "path")
    ELSE Str("sdcard/msgbot/charts/" \o name \o "_" \o ToString(e.now) \o ".png")

WithPath(cfg, path) == [k \in DOMAIN cfg \cup {"path"} |-> IF k = "path" THEN path ELSE cfg[k]]

-----------------------------------------------------------------------------
(* The formula evaluator: new Function('x', 'return ' + formula) *)

\* The formulas of the model.  "(" does not parse.  "1/x" and "1/t" are the
\* reciprocal.  "f(x)" and "f(t)" call a function of the caller, whose
\* outcome at each sample the environment gives: a finite number, a
\* non-finite one, or an exception.  An empty array concatenates to
\* 'return ', a function that returns undefined.
Outcomes == {"finite", "nonfinite", "throw"}

\* An evaluator that accepts every source text.
CompilesAlways(formula) == TRUE

Compiles(formula) == ~(formula.kind = "string" /\ formula.val = "(")

\* formulaFunc(mathX) at sample i, mathX a fraction
EvalFormula(formula, i, x, e) ==
    IF formula.kind # "string" THEN [kind |-> "nonfinite", val |-> RInt(0)]
    ELSE CASE formula.val \in {"1/x", "1/t"} ->
                IF x[1] = 0 THEN [kind |-> "nonfinite", val |-> RInt(0)]
                ELSE [kind |-> "finite", val |-> Rat(x[2], x[1])]
           [] OTHER ->
                IF i + 1 \in DOMAIN e.samples
                THEN [kind |-> e.samples[i + 1], val |-> RInt(1)]
                ELSE [kind |-> "finite", val |-> RInt(1)]

-----------------------------------------------------------------------------
(* createFunctionGraph *)

\* A gap that leaves the flag as it was.
FirstPointKept(firstPoint) == firstPoint

\* if (!isFinite(mathY)) { firstPoint = true; continue; }
FirstPointAfterGap(firstPoint) == TRUE

\* The sampling loop: for (let i = 0; i < width; i++) { ... }.  An exception
\* of the formula leaves the loop (and the try block).
RECURSIVE FunctionSamples(_, _, _, _, _)
FunctionSamples(cfg, e, i, firstPoint, acc) ==
    LET width == cfg["width"].val
        height == cfg["height"].val
        scale == cfg["scale"].val
        mathX == Rat(2 * i - width, 2 * scale)
        y == EvalFormula(cfg["formula"], i, mathX, e)
        canvasY == RSub(Rat(height, 2), RMul(y.val, RInt(scale)))
    IN IF i >= width THEN Done(acc)
       ELSE IF y.kind = "throw" THEN Throws(acc)
       ELSE IF y.kind = "nonfinite"
            THEN FunctionSamples(cfg, e, i + 1, FirstPointAfterGap(firstPoint), acc)
       ELSE FunctionSamples(cfg, e, i + 1, FALSE,
                Append(acc, Ev(IF firstPoint THEN "moveTo" ELSE "lineTo",
                               <<i, canvasY>>)))

FunctionGraphBody(cfg, path, e) ==
    Then(ensureDirectoryExists(path, e),
    Then(createBitmap(cfg["width"], cfg["height"], e),
    Then(DecodeColors(<<cfg["backgroundColor"], cfg["axisColor"], cfg["lineColor"]>>),
    Then(Done(<<Ev("drawPaint", <<>>), Ev("drawLine", <<"x axis">>),
                Ev("drawLine", <<"y axis">>)>>),
    Then(FunctionSamples(cfg, e, 0, TRUE, <<>>),
    Then(Done(<<Ev("drawPath", <<>>)>>),
         SaveAndSchedule(path, cfg, e)))))))

\* createFunctionGraph from the formula check on, config and path resolved
FunctionGraphFrom(cfg, path, e) ==
    IF ~Truthy(CGet(cfg, "formula")) THEN ReturnNull(cfg, path, "formula missing")
    ELSE IF ~Compiles(cfg["formula"]) THEN ReturnNull(cfg, path, "bad formula")
    ELSE TryCatchFinally(cfg, path, FunctionGraphBody(cfg, path, e), e)

RunFunctionGraph(opts, e) ==
    LET merged == mergeOptions(FunctionGraphDefaults, opts)
        path == ResolvedPath(merged, "functionGraph", e)
        cfg == WithPath(merged, path)
    IN FunctionGraphFrom(cfg, path, e)

-----------------------------------------------------------------------------
(* createPolarGraph *)

\* rotations is kept in 512ths of a turn, so that small sample counts are
\* reachable: maxAngle = 360 * rotations / 512, and the loop variable angle
\* is j / 2 for j = 0, 1, ...; angle < maxAngle is then
AngleInRange(j, rotations) == j * 512 < 720 * rotations

\* The sampling loop: an exception of the formula is caught at the sample.
\* A point is recorded by its sample index; its coordinates are
\* centre +- r * cos/sin(theta) * scale.
RECURSIVE PolarSamples(_, _, _, _, _)
PolarSamples(cfg, e, j, isPathStarted, acc) ==
    LET r == EvalFormula(cfg["formula"], j, <<j, 2>>, e)
    IN IF ~AngleInRange(j, cfg["rotations"].val) THEN Done(acc)
       ELSE IF r.kind = "throw"
            THEN PolarSamples(cfg, e, j + 1, FALSE, acc)
       ELSE IF r.kind = "nonfinite"
            THEN PolarSamples(cfg, e, j + 1, FALSE, acc)
       ELSE PolarSamples(cfg, e, j + 1, TRUE,
                Append(acc, Ev(IF ~isPathStarted THEN "moveTo" ELSE "lineTo",
                               <<j>>)))

PolarGraphBody(cfg, path, e) ==
    Then(ensureDirectoryExists(path, e),
    Then(createBitmap(cfg["width"], cfg["height"], e),
    Then(DecodeColors(<<cfg["backgroundColor"], cfg["axisColor"], cfg["lineColor"]>>),
    Then(Done(<<Ev("drawPaint", <<>>), Ev("drawLine", <<"x axis">>),
                Ev("drawLine", <<"y axis">>)>>),
    Then(PolarSamples(cfg, e, 0, FALSE, <<>>),
    Then(Done(<<Ev("drawPath", <<>>)>>),
         SaveAndSchedule(path, cfg, e)))))))

PolarGraphFrom(cfg, path, e) ==
    IF ~Truthy(CGet(cfg, "formula")) THEN ReturnNull(cfg, path, "formula missing")
    ELSE IF ~Compiles(cfg["formula"]) THEN ReturnNull(cfg, path, "bad formula")
    ELSE TryCatchFinally(cfg, path, PolarGraphBody(cfg, path, e), e)

RunPolarGraph(opts, e) ==
    LET merged == mergeOptions(PolarGraphDefaults, opts)
        path == ResolvedPath(merged, "polarGraph", e)
        cfg == WithPath(merged, path)
    IN PolarGraphFrom(cfg, path, e)

-----------------------------------------------------------------------------
(* createLineChart, createPieChart, createBarChart, createScatterPlot,      *)
(* createNormalDistributionChart: validation, resources and the order of    *)
(* the platform calls and what is drawn.                                    *)

\* data.length of a value that passed the truthiness test
LengthOf(v) == IF v.kind \in {"array", "chars"} THEN Len(v.val) ELSE 0

\* if (!config.data || config.data.length < 2)
LineDataInvalid(data) == ~Truthy(data) \/ LengthOf(data) < 2

\* The vertical position on the canvas of data value y:
\* height - bottom - ((y - minY) / yRange) * chartHeight
LineYPos(cfg, y, minY, yRange) ==
    LET padding == cfg["padding"].val.own
        height == cfg["height"].val
        chartHeight == height - padding["top"].val - padding["bottom"].val
    IN RSub(RInt(height - padding["bottom"].val),
            RMul(RMul(RSub(y, RInt(minY)), Rat(1, yRange)), RInt(chartHeight)))

\* What createLineChart draws after the background: the six grid lines with
\* their labels, the label of each x, the path through the points and one
\* circle per point.
LineChartDrawing(cfg) ==
    LET data == cfg["data"].val
        padding == cfg["padding"].val.own
        dataLen == Len(data)
        minY == MinOf({data[i].y : i \in 1..dataLen})
        maxY == MaxOf({data[i].y : i \in 1..dataLen})
        yRange == RangeOrOne(minY, maxY)
        chartWidth == cfg["width"].val - padding["left"].val - padding["right"].val
        xInterval == Rat(chartWidth, dataLen - 1)
        XPos(i) == RAdd(RInt(padding["left"].val), RMul(RInt(i), xInterval))
        YPos(i) == LineYPos(cfg, RInt(data[i + 1].y), minY, yRange)
        Grid(i) ==
            LET value == RAdd(RInt(minY), RMul(Rat(yRange, 5), RInt(i)))
            IN <<Ev("drawLine", <<"grid", LineYPos(cfg, value, minY, yRange)>>),
                 Ev("drawText", <<"y label", ToFixed1(value)>>)>>
    IN [k \in 1..12 |-> Grid((k - 1) \div 2)[((k - 1) % 2) + 1]]
       \o [i \in 1..dataLen |-> Ev("drawText", <<"x label", data[i].x>>)]
       \o <<Ev("linePath.moveTo", <<0, XPos(0), YPos(0)>>)>>
       \o [i \in 1..(dataLen - 1) |-> Ev("linePath.lineTo", <<i, XPos(i), YPos(i)>>)]
       \o <<Ev("drawPath", <<"linePath">>)>>
       \o [i \in 1..dataLen |-> Ev("drawCircle", <<i, XPos(i - 1), YPos(i - 1)>>)]

LineChartBody(cfg, path, e) ==
    Then(DecodeColors(<<cfg["backgroundColor"], cfg["lineColor"], cfg["pointColor"],
                        cfg["gridColor"], cfg["textColor"]>>),
    Then(ensureDirectoryExists(path, e),
    Then(createBitmap(cfg["width"], cfg["height"], e),
    Then(Done(<<Ev("drawPaint", <<>>)>>),
    Then(Done(LineChartDrawing(cfg)),
         SaveAndSchedule(path, cfg, e))))))

LineChartFrom(cfg, path, e) ==
    IF LineDataInvalid(CGet(cfg, "data")) THEN ReturnNull(cfg, path, "data missing")
    ELSE TryCatchFinally(cfg, path, LineChartBody(cfg, path, e), e)

RunLineChart(opts, e) ==
    LET merged == mergeOptions(LineChartDefaults, opts)
        path == ResolvedPath(merged, "lineChart", e)
        cfg == WithPath(merged, path)
    IN LineChartFrom(cfg, path, e)

\* if (!config.data)
DataMissing(data) == ~Truthy(data)

\* colors.map(hex => hexToARGB(hex)) throws when colors is not an array
ColorList(colors) == IF colors.kind = "array" THEN colors.val ELSE <<UNDEF>>

\* totalValue = data.reduce((acc, cur) => acc + cur.value, 0)
TotalValue(data) == SumSeq([i \in 1..Len(data.val) |-> data.val[i].value])

\* A quotient of two numbers as the code computes it: a fraction, or not a
\* finite number when the divisor is 0.
Quotient(a, b) ==
    IF b = 0 THEN [finite |-> FALSE, val |-> RInt(0)]
    ELSE [finite |-> TRUE, val |-> Rat(a, b)]

\* A test that never takes the empty-state branch.
TotalIsZeroNever(total) == FALSE

\* if (totalValue === 0)
TotalIsZero(total) == total = 0

\* An index that is one colour ahead.
ColorIndexAhead(i, count) == (i + 1) % count

\* sliceARGBs[i % sliceARGBs.length]
ColorIndex(i, count) == i % count

\* The rendering loop of the slices: for item i (from 0) the arc from
\* startAngle over sweepAngle, the legend square at legendY and the legend
\* text with the label and the percentage.  sliceARGBs[i % length] of an empty
\* colour list is undefined, and reading its channel throws.
RECURSIVE PieSlices(_, _, _, _, _)
PieSlices(cfg, total, i, startAngle, acc) ==
    LET data == cfg["data"].val
        item == data[i + 1]
        height == cfg["height"].val
        share == Quotient(item.value, total)
        sweepAngle == [finite |-> share.finite, val |-> RMul(share.val, RInt(360))]
        legendY == RAdd(Rat(height - Len(data) * 60, 2), RInt(60 * i))
        percentage == IF share.finite THEN ToFixed1(RMul(share.val, RInt(100))) ELSE 0
        colors == ColorList(cfg["colors"])
        argb == colors[ColorIndex(i, Len(colors)) + 1]
    IN IF i >= Len(data) THEN Done(acc)
       ELSE IF Len(colors) = 0 THEN Throws(acc)
       ELSE PieSlices(cfg, total, i + 1,
                [finite |-> startAngle.finite /\ sweepAngle.finite,
                 val |-> RAdd(startAngle.val, sweepAngle.val)],
                acc \o <<Ev("drawArc", <<startAngle, sweepAngle, argb>>),
                         Ev("drawRect", <<legendY, argb>>),
                         Ev("drawText", <<item.label, percentage>>)>>)

PieChartBody(cfg, path, e) ==
    Then(DecodeColors(<<cfg["backgroundColor"], cfg["textColor"]>>
                      \o ColorList(cfg["colors"])),
    Then(ensureDirectoryExists(path, e),
    Then(createBitmap(cfg["width"], cfg["height"], e),
    Then(Done(<<Ev("drawPaint", <<>>)>>),
    Then(IF TotalIsZero(TotalValue(cfg["data"]))
         THEN Done(<<Ev("drawText", <<"no data", "center">>)>>)
         ELSE PieSlices(cfg, TotalValue(cfg["data"]), 0,
                        [finite |-> TRUE, val |-> RInt(-90)], <<>>),
         SaveAndSchedule(path, cfg, e))))))

PieChartFrom(cfg, path, e) ==
    IF DataMissing(CGet(cfg, "data")) THEN ReturnNull(cfg, path, "data missing")
    ELSE TryCatchFinally(cfg, path, PieChartBody(cfg, path, e), e)

RunPieChart(opts, e) ==
    LET merged == mergeOptions(PieChartDefaults, opts)
        path == ResolvedPath(merged, "pieChart", e)
        cfg == WithPath(merged, path)
    IN PieChartFrom(cfg, path, e)

\* A check that lets an empty array through.
BarDataInvalidNoLength(data) == ~Truthy(data)

\* dataLen = data ? data.length : 0; if (!data || dataLen === 0)
BarDataInvalid(data) == ~Truthy(data) \/ LengthOf(data) = 0

\* The least and the greatest of a non-empty set of numbers (Math.max, and
\* the running minimum and maximum of a loop).
\* maxValue = Math.max.apply(null, data.map(item => item.value)) || 1
MaxValueOrOne(data) ==
    LET m == MaxOf({data[i].value : i \in 1..Len(data)})
    IN IF m = 0 THEN 1 ELSE m

\* A bar scaled with the headroom of the horizontal orientation.
BarHeightWithHeadroom(value, maxValue, graphHeight) ==
    Rat(value * graphHeight * 10, maxValue * 11)

\* barHeight = (item.value / maxValue) * graphHeight
BarHeight(value, maxValue, graphHeight) == Rat(value * graphHeight, maxValue)

\* barWidth = (item.value / (maxValue * 1.1)) * graphWidth
BarLength(value, maxValue, graphWidth) == Rat(value * graphWidth * 10, maxValue * 11)

\* The bars of the vertical orientation: for each item, in data order, the
\* rectangle <<left, top, right, bottom>>, the label below it and the value
\* above it.
VerticalBars(cfg) ==
    LET data == cfg["data"].val
        graphWidth == cfg["width"].val - 150 - 50
        graphHeight == cfg["height"].val - 150 - 150
        maxValue == MaxValueOrOne(data)
        barWidth == Rat(2 * graphWidth, 3 * Len(data))
        barSpacing == RMul(barWidth, Rat(1, 2))
        Bar(i) ==
            LET item == data[i + 1]
                barHeight == BarHeight(item.value, maxValue, graphHeight)
                left == RAdd(RAdd(RInt(150), barSpacing),
                             RMul(RInt(i), RAdd(barWidth, barSpacing)))
                bottom == RInt(150 + graphHeight)
                top == RSub(bottom, barHeight)
            IN <<Ev("drawRect", <<left, top, RAdd(left, barWidth), bottom>>),
                 Ev("drawText", <<item.label>>),
                 Ev("drawText", <<ToString(item.value)>>)>>
    IN [k \in 1..(3 * Len(data)) |-> Bar((k - 1) \div 3)[((k - 1) % 3) + 1]]

\* The bars of the horizontal orientation, from the left axis to the right.
HorizontalBars(cfg) ==
    LET data == cfg["data"].val
        graphWidth == cfg["width"].val - 150 - 50
        graphHeight == cfg["height"].val - 150 - 150
        maxValue == MaxValueOrOne(data)
        barHeight == Rat(2 * graphHeight, 3 * Len(data))
        barSpacing == RMul(barHeight, Rat(1, 2))
        Bar(i) ==
            LET item == data[i + 1]
                barWidth == BarLength(item.value, maxValue, graphWidth)
                top == RAdd(RAdd(RInt(150), barSpacing),
                            RMul(RInt(i), RAdd(barHeight, barSpacing)))
            IN <<Ev("drawRect", <<RInt(150), top, RAdd(RInt(150), barWidth),
                                  RAdd(top, barHeight)>>),
                 Ev("drawText", <<item.label>>),
                 Ev("drawText", <<ToString(item.value)>>)>>
    IN [k \in 1..(3 * Len(data)) |-> Bar((k - 1) \div 3)[((k - 1) % 3) + 1]]

BarChartBody(cfg, path, e) ==
    Then(ensureDirectoryExists(path, e),
    Then(createBitmap(cfg["width"], cfg["height"], e),
    Then(DecodeColors(<<cfg["backgroundColor"], cfg["barColor"], cfg["axisColor"],
                        cfg["textColor"], cfg["titleColor"]>>),
    Then(Done(<<Ev("drawPaint", <<>>)>>),
    Then(IF Truthy(cfg["title"])
         THEN Done(<<Ev("drawText", <<"title", cfg["title"].val>>)>>)
         ELSE Done(<<>>),
    Then(Done(<<Ev("drawLine", <<"y axis">>), Ev("drawLine", <<"x axis">>)>>),
    Then(IF cfg["orientation"] = Str("vertical")
         THEN Done(VerticalBars(cfg))
         ELSE Done(HorizontalBars(cfg)),
         SaveAndSchedule(path, cfg, e))))))))

BarChartFrom(cfg, path, e) ==
    IF BarDataInvalid(CGet(cfg, "data")) THEN ReturnNull(cfg, path, "data empty")
    ELSE TryCatchFinally(cfg, path, BarChartBody(cfg, path, e), e)

\* The path is resolved into a local variable; config.path stays as merged.
RunBarChart(opts, e) ==
    LET cfg == mergeOptions(BarChartDefaults, opts)
        path == ResolvedPath(cfg, "barChart", e)
    IN BarChartFrom(cfg, path, e)

\* toPixelX = val => p + ((val - minX) / xRange) * drawableWidth
\* toPixelY = val => (height - p) - ((val - minY) / yRange) * drawableHeight
ToPixelX(cfg, val, minX, xRange) ==
    RAdd(RInt(cfg["padding"].val),
         RMul(RMul(RSub(val, RInt(minX)), Rat(1, xRange)),
              RInt(cfg["width"].val - 2 * cfg["padding"].val)))

ToPixelY(cfg, val, minY, yRange) ==
    RSub(RInt(cfg["height"].val - cfg["padding"].val),
         RMul(RMul(RSub(val, RInt(minY)), Rat(1, yRange)),
              RInt(cfg["height"].val - 2 * cfg["padding"].val)))

\* A band that is drawn whatever the regression carries.
BandIsDrawnAlways(regression) == TRUE

\* if (regression.n > 2 && regression.Sxx > 0)
BandIsDrawn(regression) == regression.n > 2 /\ regression.Sxx[1] > 0

\* A loop that stops one sample short.
BandLoopStopsEarly(i, resolution) == i < resolution

\* for (let i = 0; i <= resolution; i++)
BandLoopContinues(i, resolution) == i <= resolution

\* A boundary point of the band at sample i: currentX, predictedY and the
\* margin of error.  The margin is t_value * residualStdErr * sqrt(1 / n +
\* (currentX - meanX)^2 / Sxx); the point keeps its square (the roots are not
\* fractions), which is not a number when Sxx is 0.  side is 1 on the upper
\* boundary (predictedY + margin) and -1 on the lower one.
BandPoint(regression, minX, xRange, resolution, i, side) ==
    LET currentX == RAdd(RInt(minX), RMul(Rat(xRange, resolution), RInt(i)))
        predictedY == RAdd(RMul(regression.slope, currentX), regression.intercept)
        dx == RSub(currentX, regression.meanX)
        finite == regression.Sxx[1] # 0
        spread == IF finite
                  THEN RAdd(Rat(1, regression.n),
                            RMul(RMul(dx, dx),
                                 <<regression.Sxx[2], regression.Sxx[1]>>))
                  ELSE RInt(0)
    IN [i |-> i, side |-> side, x |-> currentX, predictedY |-> predictedY,
        finite |-> finite,
        marginSquared |-> RMul(Rat(196 * 196, 100 * 100),
                               RMul(regression.residualVariance, spread))]

\* The points pushed to upperPoints (side 1) or lowerPoints (side -1)
RECURSIVE BandPoints(_, _, _, _, _, _)
BandPoints(regression, minX, xRange, resolution, i, side) ==
    IF ~BandLoopContinues(i, resolution) THEN <<>>
    ELSE <<BandPoint(regression, minX, xRange, resolution, i, side)>>
         \o BandPoints(regression, minX, xRange, resolution, i + 1, side)

Reverse(q) == [i \in 1..Len(q) |-> q[Len(q) + 1 - i]]

\* ciPath: moveTo(upperPoints[0]), lineTo the other upper points, lineTo the
\* lower points from the last to the first, close(); then the clipped fill.
\* upperPoints[0] of an empty list is undefined: reading its x throws.
ConfidenceBand(regression, minX, xRange, resolution) ==
    LET upperPoints == BandPoints(regression, minX, xRange, resolution, 0, 1)
        lowerPoints == BandPoints(regression, minX, xRange, resolution, 0, -1)
    IN IF upperPoints = <<>> THEN Throws(<<>>)
       ELSE Done(<<Ev("ciPath.moveTo", <<upperPoints[1]>>)>>
                 \o [i \in 1..(Len(upperPoints) - 1) |->
                        Ev("ciPath.lineTo", <<upperPoints[i + 1]>>)]
                 \o [i \in 1..Len(lowerPoints) |->
                        Ev("ciPath.lineTo", <<Reverse(lowerPoints)[i]>>)]
                 \o <<Ev("ciPath.close", <<>>), Ev("clipRect", <<>>),
                      Ev("drawPath", <<"ciPath">>)>>)

\* if (config.showConfidenceInterval) { regression line, then the band }
RegressionAnalysis(cfg, minX, xRange) ==
    LET regression == calculateLinearRegression(cfg["data"].val)
    IN IF ~Truthy(CGet(cfg, "showConfidenceInterval")) THEN Done(<<>>)
       ELSE IF regression.null THEN Done(<<>>)
       ELSE Then(Done(<<Ev("drawLine", <<"regression", regression.slope,
                                         regression.intercept>>)>>),
                 IF BandIsDrawn(regression)
                 THEN ConfidenceBand(regression, minX, xRange,
                                     cfg["confidenceIntervalResolution"].val)
                 ELSE Done(<<>>))

\* The else branch of data.length === 0: axes and labels, the analysis, then
\* one circle per point, in data order.
ScatterPoints(cfg) ==
    LET data == cfg["data"].val
        minX == MinOf({data[i].x : i \in 1..Len(data)})
        maxX == MaxOf({data[i].x : i \in 1..Len(data)})
        minY == MinOf({data[i].y : i \in 1..Len(data)})
        maxY == MaxOf({data[i].y : i \in 1..Len(data)})
        xRange == RangeOrOne(minX, maxX)
        yRange == RangeOrOne(minY, maxY)
    IN Then(Done(<<Ev("drawLine", <<"x axis">>), Ev("drawLine", <<"y axis">>),
                   Ev("drawText", <<"title">>), Ev("drawText", <<"xLabel">>),
                   Ev("drawText", <<"yLabel">>)>>),
       Then(RegressionAnalysis(cfg, minX, xRange),
            Done([i \in 1..Len(data) |->
                    Ev("drawCircle", <<i, ToPixelX(cfg, RInt(data[i].x), minX, xRange),
                                       ToPixelY(cfg, RInt(data[i].y), minY, yRange)>>)])))

ScatterPlotBody(cfg, path, e) ==
    Then(ensureDirectoryExists(path, e),
    Then(createBitmap(cfg["width"], cfg["height"], e),
    Then(DecodeColors(<<cfg["backgroundColor"], cfg["axisColor"], cfg["textColor"],
                        cfg["pointColor"], cfg["regressionLineColor"],
                        cfg["confidenceIntervalColor"]>>),
    Then(Done(<<Ev("drawPaint", <<>>)>>),
    Then(IF LengthOf(cfg["data"]) = 0
         THEN Done(<<Ev("drawText", <<"no data", "center">>)>>)
         ELSE ScatterPoints(cfg),
         SaveAndSchedule(path, cfg, e))))))

ScatterPlotFrom(cfg, path, e) ==
    IF DataMissing(CGet(cfg, "data")) THEN ReturnNull(cfg, path, "data missing")
    ELSE TryCatchFinally(cfg, path, ScatterPlotBody(cfg, path, e), e)

RunScatterPlot(opts, e) ==
    LET merged == mergeOptions(ScatterPlotDefaults, opts)
        path == ResolvedPath(merged, "scatterPlot", e)
        cfg == WithPath(merged, path)
    IN ScatterPlotFrom(cfg, path, e)

\* confidenceLevels.slice().sort(...).map(ci => { ...; hexToARGB(ci.color) }),
\* before the try block: it throws when confidenceLevels is not an array and
\* when an entry's colour is not a string.
SortLevelsThrows(levels) ==
    \/ levels.kind # "array"
    \/ \E i \in 1..Len(levels.val) : ~hexToARGB(levels.val[i].color).ok

\* Z_SCORES = { 0.68: 1.0, 0.95: 1.96, 0.99: 2.58 }, levels and scores in
\* hundredths; 0 stands for the undefined of a level that is not a key.
ZScore(level) ==
    CASE level = 68 -> 100
      [] level = 95 -> 196
      [] level = 99 -> 258
      [] OTHER -> 0

\* A comparator that sorts the narrowest band first.
CompareLevelsAscending(a, b) == a.level - b.level

\* (a, b) => b.level - a.level
CompareLevels(a, b) == b.level - a.level

\* Array.prototype.sort with that comparator: a stable sort, each element
\* placed after the elements that do not have to follow it.
RECURSIVE InsertLevel(_, _)
InsertLevel(sorted, ci) ==
    IF sorted = <<>> THEN <<ci>>
    ELSE IF CompareLevels(Head(sorted), ci) <= 0
         THEN <<Head(sorted)>> \o InsertLevel(Tail(sorted), ci)
         ELSE <<ci>> \o sorted

RECURSIVE SortLevels(_)
SortLevels(levels) ==
    IF levels = <<>> THEN <<>>
    ELSE InsertLevel(SortLevels(SubSeq(levels, 1, Len(levels) - 1)),
                     levels[Len(levels)])

\* Math.floor, Math.ceil and Math.round (the nearest integer, the larger one
\* of two) of a fraction
Floor(r) == r[1] \div r[2]
Ceil(r) == -((-r[1]) \div r[2])
Round(r) == (2 * r[1] + r[2]) \div (2 * r[2])

\* A pixel index as the code computes it: an integer, or NaN.
Pixel(n) == [nan |-> FALSE, val |-> n]
NaNPixel == [nan |-> TRUE, val |-> 0]

\* primaryAxisSize = (orientation === 'vertical') ? width : height
PrimaryAxisSize(cfg) ==
    IF cfg["orientation"] = Str("vertical") THEN cfg["width"].val
    ELSE cfg["height"].val

\* ciResolution = config.ciResolution || primaryAxisSize
CiResolution(cfg) ==
    IF Truthy(cfg["ciResolution"]) THEN cfg["ciResolution"].val
    ELSE PrimaryAxisSize(cfg)

\* for (i = 0; i < primaryAxisSize; i++) pdfCache[i] = ChartUtils.pdf(dataX, ...)
PdfCacheFill(cfg) ==
    Done([k \in 1..PrimaryAxisSize(cfg) |-> Ev("pdf", <<k - 1>>)])

\* primaryAxisSize * (x - minXData) / xDataRange for x = mean + offset * stdDev
\* (offset in hundredths), with range = 3.5 * stdDev: 0 / 0, not a number,
\* when stdDev is 0.
AxisPosition(cfg, offset) ==
    LET stdDev == cfg["stdDev"].val
        mean == cfg["mean"].val
        minXData == RSub(RInt(mean), Rat(35 * stdDev, 10))
        maxXData == RAdd(RInt(mean), Rat(35 * stdDev, 10))
        xDataRange == RSub(maxXData, minXData)
        x == RAdd(RInt(mean), Rat(offset * stdDev, 100))
        num == RMul(RInt(PrimaryAxisSize(cfg)), RSub(x, minXData))
    IN IF xDataRange[1] = 0 THEN [finite |-> FALSE, val |-> RInt(0)]
       ELSE [finite |-> TRUE,
             val |-> Rat(num[1] * xDataRange[2], num[2] * xDataRange[1])]

\* if (p < 0 || p >= primaryAxisSize) continue: both comparisons are false
\* for NaN.
OutsideCache(p, size) == ~p.nan /\ (p.val < 0 \/ p.val >= size)

\* The inner loop of a band: for (i = 0; i <= ciResolution; i++) the vertex
\* at p = Math.round(startPixel + (endPixel - startPixel) * (i / ciResolution))
\* with the density pdfCache[p].
RECURSIVE BandVertices(_, _, _, _, _)
BandVertices(cfg, startPixel, endPixel, i, acc) ==
    LET ciResolution == CiResolution(cfg)
        p == IF startPixel.nan \/ endPixel.nan THEN NaNPixel
             ELSE Pixel(Round(RAdd(RInt(startPixel.val),
                                   RMul(RInt(endPixel.val - startPixel.val),
                                        Rat(i, ciResolution)))))
    IN IF ~(i <= ciResolution) THEN acc
       ELSE IF OutsideCache(p, PrimaryAxisSize(cfg))
            THEN BandVertices(cfg, startPixel, endPixel, i + 1, acc)
       ELSE BandVertices(cfg, startPixel, endPixel, i + 1,
                         Append(acc, Ev("ciPath.lineTo", <<"pdfCache", p>>)))

\* One pass of for (let ci of sortedConfidenceLevels): nothing for a level
\* without a z-score, else the slab between mean - z * stdDev and
\* mean + z * stdDev (from the upper end down when horizontal) and its fill.
ConfidenceSlab(cfg, ci) ==
    LET z == ZScore(ci.level)
        vertical == cfg["orientation"] = Str("vertical")
        from == AxisPosition(cfg, IF vertical THEN -z ELSE z)
        to == AxisPosition(cfg, IF vertical THEN z ELSE -z)
        startPixel == IF from.finite THEN Pixel(Floor(from.val)) ELSE NaNPixel
        endPixel == IF to.finite THEN Pixel(Ceil(to.val)) ELSE NaNPixel
    IN IF z = 0 THEN <<>>
       ELSE <<Ev("ciPath.reset", <<>>), Ev("ciPath.moveTo", <<"corner", startPixel>>)>>
            \o BandVertices(cfg, startPixel, endPixel, 0, <<>>)
            \o <<Ev("ciPath.lineTo", <<"corner", endPixel>>),
                 Ev("ciPath.close", <<>>), Ev("drawPath", <<"ciPath", ci>>)>>

RECURSIVE ConfidenceSlabs(_, _)
ConfidenceSlabs(cfg, sorted) ==
    IF sorted = <<>> THEN <<>>
    ELSE ConfidenceSlab(cfg, Head(sorted)) \o ConfidenceSlabs(cfg, Tail(sorted))

\* graphPath: moveTo at pdfCache[0], lineTo at pdfCache[i] for the other
\* indices of the primary axis; then the stroke.
GraphCurve(cfg) ==
    Done(<<Ev("graphPath.moveTo", <<"pdfCache", Pixel(0)>>)>>
         \o [i \in 1..(PrimaryAxisSize(cfg) - 1) |->
                Ev("graphPath.lineTo", <<"pdfCache", Pixel(i)>>)]
         \o <<Ev("drawPath", <<"graphPath">>)>>)

NormalDistributionChartBody(cfg, path, e) ==
    Then(ensureDirectoryExists(path, e),
    Then(createBitmap(cfg["width"], cfg["height"], e),
    Then(DecodeColors(<<cfg["backgroundColor"], cfg["axisColor"], cfg["lineColor"]>>),
    Then(Done(<<Ev("drawPaint", <<>>)>>),
    Then(PdfCacheFill(cfg),
    Then(Done(ConfidenceSlabs(cfg, SortLevels(cfg["confidenceLevels"].val))),
    Then(Done(<<Ev("drawLine", <<"x axis">>), Ev("drawLine", <<"y axis">>)>>),
    Then(GraphCurve(cfg),
         SaveAndSchedule(path, cfg, e)))))))))

NormalDistributionChartFrom(cfg, path, e) ==
    IF SortLevelsThrows(cfg["confidenceLevels"])
    THEN Invocation(cfg, path, UNDEF, "throw", <<>>)
    ELSE TryCatchFinally(cfg, path, NormalDistributionChartBody(cfg, path, e), e)

RunNormalDistributionChart(opts, e) ==
    LET merged == mergeOptions(NormalDistributionChartDefaults, opts)
        path == ResolvedPath(merged, "normalDistributionChart", e)
        cfg == WithPath(merged, path)
    IN NormalDistributionChartFrom(cfg, path, e)

-----------------------------------------------------------------------------
(* The calls of the model: the options records and the environments *)

MaxWidth == 4       \* canvas widths 2..MaxWidth where the samples are enumerated
MaxRotations == 2   \* rotations 0..MaxRotations, in 512ths of a turn
MaxItems == 2       \* data arrays of up to MaxItems elements
MaxConds == 1       \* how many of Conditions hold during one call
MaxResolution == 2  \* confidenceIntervalResolution 1..MaxResolution
MaxLevels == 2      \* confidenceLevels arrays of up to MaxLevels entries

\* A key the caller's record does not have.
ABSENT == [kind |-> "absent", val |-> 0]

OwnOf(rec) == [k \in {k \in DOMAIN rec : rec[k] # ABSENT} |-> rec[k]]

OptionObject(rec) == Obj(OwnOf(rec), EmptyObject)

PathChoices == {ABSENT, UNDEF, Str("out.png")}
AutoDeleteChoices == {ABSENT, Bool(TRUE)}
DeleteDelayChoices == {ABSENT, UNDEF, Num(0)}
ColorChoices == {ABSENT, UNDEF}
WidthChoices == {ABSENT, UNDEF} \cup {Num(w) : w \in 2..MaxWidth}

FormulaChoices(v) ==
    {ABSENT, NULL, Str(""), Arr(<<>>), Str("("), Str("1/" \o v), Str("f(" \o v \o ")")}

\* The formulas whose samples the environment decides.
IsCallerFunction(formula) ==
    formula.kind = "string" /\ formula.val \in {"f(x)", "f(t)"}

\* A formula that reaches the sampling loop.
IsSampled(formula) == Truthy(formula) /\ formula # ABSENT /\ Compiles(formula)

\* The default width (800 samples) only where no sample is taken; the
\* caller's function only with the default scale and colour.
FunctionGraphOptions ==
    {UNDEF} \cup
    {OptionObject(r) :
        r \in {r \in [path : PathChoices, autoDelete : AutoDeleteChoices,
                      deleteDelay : DeleteDelayChoices,
                      formula : FormulaChoices("x"), width : WidthChoices,
                      scale : {ABSENT, Num(1)}, lineColor : ColorChoices] :
                 /\ IsSampled(r.formula) => r.width # ABSENT
                 /\ IsCallerFunction(r.formula) =>
                        r.scale = ABSENT /\ r.lineColor = ABSENT /\ r.path # UNDEF}}

PolarGraphOptions ==
    {UNDEF} \cup
    {OptionObject(r) :
        r \in {r \in [path : PathChoices, autoDelete : AutoDeleteChoices,
                      deleteDelay : DeleteDelayChoices,
                      formula : FormulaChoices("t"), width : {ABSENT, UNDEF},
                      rotations : {ABSENT} \cup {Num(k) : k \in 0..MaxRotations},
                      lineColor : ColorChoices] :
                 /\ IsSampled(r.formula) => r.rotations # ABSENT
                 /\ IsCallerFunction(r.formula) =>
                        r.lineColor = ABSENT /\ r.path # UNDEF}}

SeqsUpTo(S, n) == UNION {[1..k -> S] : k \in 0..n}

XYPoints == {[x |-> 1, y |-> 1], [x |-> 2, y |-> 3]}
Items == {[label |-> "A", value |-> 0], [label |-> "B", value |-> 10],
          [label |-> "C", value |-> 20]}
\* The items of the horizontal bars: the same, and two below zero.
BarItems == Items \cup {[label |-> "M", value |-> -10], [label |-> "N", value |-> -20]}
PieItems == {[label |-> "A", value |-> 0], [label |-> "B", value |-> 10],
             [label |-> "C", value |-> -10]}

\* The slices of the pie charts whose layout is looked at, and their colours.
PieSliceItems == {[label |-> "B", value |-> 10], [label |-> "D", value |-> 30],
                  [label |-> "C", value |-> -10]}
SliceColors == <<Chars(<<"#","F","0","0">>), Chars(<<"#","0","0","F">>)>>

DataChoices(S) == {ABSENT, UNDEF, NULL, Str("")} \cup {Arr(a) : a \in SeqsUpTo(S, MaxItems)}

DataChartOptions(S) ==
    {UNDEF} \cup
    {OptionObject(r) :
        r \in [path : PathChoices, autoDelete : AutoDeleteChoices,
               deleteDelay : DeleteDelayChoices, data : DataChoices(S),
               width : {ABSENT, UNDEF, Num(0)}, backgroundColor : ColorChoices]}

\* The points of the scatter plots: two share their x.
ScatterXY == {[x |-> 1, y |-> 1], [x |-> 1, y |-> 3], [x |-> 3, y |-> 2]}

\* The analysis is asked for only with the default size and colours, and
\* with a resolution the caller gives (the default is 100 samples).
ScatterPlotOptions ==
    {UNDEF} \cup
    {OptionObject(r) :
        r \in {r \in [path : PathChoices, autoDelete : AutoDeleteChoices,
                      deleteDelay : DeleteDelayChoices,
                      data : DataChoices(ScatterXY)
                             \cup {Arr(a) : a \in SeqsUpTo(ScatterXY, MaxPoints)},
                      width : {ABSENT, UNDEF, Num(0)},
                      backgroundColor : ColorChoices,
                      showConfidenceInterval : {ABSENT, Bool(TRUE)},
                      confidenceIntervalResolution :
                            {ABSENT} \cup {Num(k) : k \in 1..MaxResolution}] :
                 /\ (r.showConfidenceInterval = ABSENT)
                        = (r.confidenceIntervalResolution = ABSENT)
                 /\ r.showConfidenceInterval # ABSENT =>
                        /\ r.width = ABSENT /\ r.backgroundColor = ABSENT
                        /\ r.path # UNDEF /\ r.deleteDelay = ABSENT
                 /\ r.showConfidenceInterval = ABSENT => r.data \in DataChoices(ScatterXY)}}

\* The pie charts: what can fail, and the layout of one to MaxItems slices
\* with the default colours or with one or two colours of the caller.
PieChartOptions ==
    DataChartOptions(PieItems) \cup
    {OptionObject(r) :
        r \in [data : {Arr(a) : a \in SeqsUpTo(PieSliceItems, MaxItems) \ {<<>>}},
               colors : {ABSENT, Arr(SubSeq(SliceColors, 1, 1)), Arr(SliceColors)}]}

\* The bar charts: what can fail, in the vertical orientation, and the
\* horizontal orientation with a title.
BarChartOptions ==
    DataChartOptions(Items) \cup
    {OptionObject(r) :
        r \in [data : {Arr(a) : a \in SeqsUpTo(BarItems, MaxItems)},
               orientation : {Str("horizontal")}, title : {ABSENT, Str("T")}]}

LevelChoices ==
    {ABSENT, UNDEF, NULL, Arr(<<>>),
     Arr(<<[level |-> 95, color |-> UNDEF]>>),
     Arr(<<[level |-> 68, color |-> White], [level |-> 95, color |-> Black]>>),
     Arr(<<[level |-> 50, color |-> White]>>)}

\* The entries of the confidenceLevels arrays: the three levels of the
\* table and one that is not in it.
LevelEntries ==
    {[level |-> 68, color |-> White], [level |-> 95, color |-> Black],
     [level |-> 99, color |-> Chars(<<"#","8","0","1","1","2","2","3","3">>)],
     [level |-> 50, color |-> Chars(<<"#","0","0","0","0","F","F">>)]}

\* Two families of calls.  The first varies what can fail, on a canvas two
\* pixels wide; the second varies the geometry: the levels in every order,
\* the size of the canvas, the orientation, the distribution and the
\* resolution.  Every call gives a width: the 1024 columns of the default
\* are not drawn.
NormalDistributionChartOptions ==
    {OptionObject(r) :
        r \in [path : PathChoices, autoDelete : AutoDeleteChoices,
               deleteDelay : DeleteDelayChoices, confidenceLevels : LevelChoices,
               width : {UNDEF, Num(0), Num(2)}, lineColor : ColorChoices]} \cup
    {OptionObject(r) :
        r \in [confidenceLevels : {Arr(a) : a \in SeqsUpTo(LevelEntries, MaxLevels)},
               width : {Num(w) : w \in 2..MaxWidth}, height : {Num(3)},
               orientation : {ABSENT, Str("horizontal")},
               mean : {ABSENT, Num(3)}, stdDev : {ABSENT, Num(0), Num(2)},
               ciResolution : {ABSENT, Num(1), Num(2)}]}

Timestamps == {1}

\* The number of samples the caller's function is asked for.
FunctionSampleCount(opts) ==
    IF opts.kind = "object" /\ "formula" \in DOMAIN opts.val.own
       /\ IsCallerFunction(opts.val.own["formula"])
       /\ opts.val.own["width"].kind = "number"
    THEN opts.val.own["width"].val ELSE 0

PolarSampleCount(opts) ==
    IF opts.kind = "object" /\ "formula" \in DOMAIN opts.val.own
       /\ IsCallerFunction(opts.val.own["formula"])
    THEN Cardinality({j \in 0..(2 * MaxRotations + 2) :
                        AngleInRange(j, opts.val.own["rotations"].val)})
    ELSE 0

Environments(sampleCount) ==
    [conds : {c \in SUBSET Conditions : Cardinality(c) <= MaxConds},
     now : Timestamps,
     samples : [1..sampleCount -> Outcomes]]

\* The calls that vary the geometry of a chart (the analysis of the scatter
\* plot, the canvas of the normal distribution) are made on a platform where
\* nothing fails.
VariesGeometry(opts) ==
    opts.kind = "object"
    /\ DOMAIN opts.val.own \cap {"showConfidenceInterval", "height", "colors"} # {}

EnvironmentsOf(opts) ==
    IF VariesGeometry(opts) THEN {e \in Environments(0) : e.conds = {}}
    ELSE Environments(0)

-----------------------------------------------------------------------------
(* The entry points as actions *)

Returns(name, opts, e, r) ==
    /\ phase' = "returned"
    /\ chart' = name
    /\ options' = opts
    /\ env' = e
    /\ config' = r.config
    /\ outPath' = r.path
    /\ result' = r.result
    /\ outcome' = r.outcome
    /\ events' = r.events
    /\ timers' = PendingTimers(r.events)
    /\ timerEvents' = <<>>
    /\ UNCHANGED <<hexVars, mergeVars, regVars, pairVars, diskVars, bandVars>>

createFunctionGraph ==
    /\ phase = "idle"
    /\ \E opts \in FunctionGraphOptions :
        \E e \in Environments(FunctionSampleCount(opts)) :
            Returns("functionGraph", opts, e, RunFunctionGraph(opts, e))

createPolarGraph ==
    /\ phase = "idle"
    /\ \E opts \in PolarGraphOptions :
        \E e \in Environments(PolarSampleCount(opts)) :
            Returns("polarGraph", opts, e, RunPolarGraph(opts, e))

createLineChart ==
    /\ phase = "idle"
    /\ \E opts \in DataChartOptions(XYPoints), e \in Environments(0) :
        Returns("lineChart", opts, e, RunLineChart(opts, e))

createPieChart ==
    /\ phase = "idle"
    /\ \E opts \in PieChartOptions :
        \E e \in EnvironmentsOf(opts) :
        Returns("pieChart", opts, e, RunPieChart(opts, e))

createBarChart ==
    /\ phase = "idle"
    /\ \E opts \in BarChartOptions, e \in Environments(0) :
        Returns("barChart", opts, e, RunBarChart(opts, e))

createScatterPlot ==
    /\ phase = "idle"
    /\ \E opts \in ScatterPlotOptions :
        \E e \in EnvironmentsOf(opts) :
        Returns("scatterPlot", opts, e, RunScatterPlot(opts, e))

createNormalDistributionChart ==
    /\ phase = "idle"
    /\ \E opts \in NormalDistributionChartOptions :
        \E e \in EnvironmentsOf(opts) :
        Returns("normalDistributionChart", opts, e,
                RunNormalDistributionChart(opts, e))

-----------------------------------------------------------------------------
(* Specifications of the helpers alone *)

NoEnv == [conds |-> {}, now |-> 0, samples |-> <<>>]

CallIdle ==
    /\ phase = "idle" /\ chart = "none" /\ options = UNDEF
    /\ env = NoEnv /\ config = EmptyObject /\ outPath = UNDEF
    /\ result = UNDEF /\ outcome = "none" /\ events = <<>>
    /\ timers = <<>> /\ timerEvents = <<>>

PairIdle == inv = <<>> /\ heap = <<>>

DiskIdle == calls = 0 /\ disk = <<>> /\ alarms = {} /\ removals = <<>>

NoBands == [done |-> FALSE, bands |-> <<>>]
BandIdle == bandIn = <<>> /\ bandOut = NoBands

HexInit ==
    /\ hexIn \in HexInputs /\ hexOut = NotCalled
    /\ MergeIdle /\ RegIdle /\ CallIdle /\ PairIdle /\ DiskIdle /\ BandIdle
HexNext == CallHexToARGB /\ UNCHANGED <<mergeVars, regVars, callVars, pairVars, diskVars, bandVars>>
SpecHex == HexInit /\ [][HexNext]_vars

MergeInit ==
    /\ mDefaults \in {DefaultsOf(c) : c \in Charts}
    /\ mOptions \in MergeOptionInputs
    /\ mConfig = MergeNotCalled
    /\ HexIdle /\ RegIdle /\ CallIdle /\ PairIdle /\ DiskIdle /\ BandIdle
MergeNext == CallMergeOptions /\ UNCHANGED <<hexVars, regVars, callVars, pairVars, diskVars, bandVars>>
SpecMerge == MergeInit /\ [][MergeNext]_vars

RegInit ==
    /\ regData \in RegInputs
    /\ regOut = [done |-> FALSE, ret |-> RegNull]
    /\ HexIdle /\ MergeIdle /\ CallIdle /\ PairIdle /\ DiskIdle /\ BandIdle
RegNext ==
    CallCalculateLinearRegression /\ UNCHANGED <<hexVars, mergeVars, callVars, pairVars, diskVars, bandVars>>
SpecReg == RegInit /\ [][RegNext]_vars

-----------------------------------------------------------------------------
(* calculateLinearRegression in the arithmetic the engine uses: a number is *)
(* an IEEE 754 binary64 value, and every +, -, * and / rounds its exact     *)
(* result to a 53-bit significand, to nearest, ties to even.  The values of *)
(* the regression are far from the ends of the exponent range, so neither   *)
(* overflow nor subnormal numbers occur.                                    *)
(*                                                                          *)
(* A natural number is its sequence of bits, least significant first,       *)
(* without high zero bits.  A number is [sign, m, e], of value              *)
(* sign * m * 2^e, with m odd; zero is the record with sign 0.              *)

SignificandBits == 53

BTrim(b) == SubSeq(b, 1, MaxOf({0} \cup {i \in DOMAIN b : b[i] = 1}))

RECURSIVE NatBits(_)
NatBits(n) == IF n = 0 THEN <<>> ELSE <<n % 2>> \o NatBits(n \div 2)

BitAt(b, i) == IF i \in DOMAIN b THEN b[i] ELSE 0

\* Sums, differences and products are taken on groups of LimbBits bits.
LimbBits == 13
LimbBase == 2 ^ LimbBits

Limbs(b) ==
    [j \in 1..((Len(b) + LimbBits - 1) \div LimbBits) |->
        SumSeq([t \in 1..LimbBits |->
                    BitAt(b, LimbBits * (j - 1) + t) * 2 ^ (t - 1)])]

Bits(l) ==
    BTrim([i \in 1..(LimbBits * Len(l)) |->
                (l[(i - 1) \div LimbBits + 1] \div 2 ^ ((i - 1) % LimbBits)) % 2])

LimbAt(l, i) == IF i \in DOMAIN l THEN l[i] ELSE 0

\* Carry (or borrow) from the lowest group up.
RECURSIVE LNorm(_, _, _, _)
LNorm(l, i, carry, acc) ==
    IF i > Len(l)
    THEN acc
    ELSE LET t == l[i] + carry
         IN LNorm(l, i + 1, t \div LimbBase, Append(acc, t % LimbBase))

BAdd(a, b) ==
    LET la == Limbs(a)
        lb == Limbs(b)
    IN Bits(LNorm([i \in 1..(MaxOf({Len(la), Len(lb)}) + 1) |->
                        LimbAt(la, i) + LimbAt(lb, i)], 1, 0, <<>>))

\* a - b, for a >= b
BSub(a, b) ==
    LET la == Limbs(a)
        lb == Limbs(b)
    IN Bits(LNorm([i \in 1..Len(la) |-> la[i] - LimbAt(lb, i)], 1, 0, <<>>))

BLess(a, b) ==
    \/ Len(a) < Len(b)
    \/ /\ Len(a) = Len(b)
       /\ \E i \in DOMAIN a : /\ a[i] < b[i]
                              /\ \A j \in (i + 1)..Len(a) : a[j] = b[j]

\* a * 2^k
BShift(a, k) == IF a = <<>> THEN <<>> ELSE [i \in 1..k |-> 0] \o a

\* a * b, for a and b of at most SignificandBits bits
BMul(a, b) ==
    LET la == Limbs(a)
        lb == Limbs(b)
    IN Bits(LNorm([k \in 1..(Len(la) + Len(lb) + 1) |->
                        SumSeq([i \in 1..Len(la) |-> la[i] * LimbAt(lb, k + 1 - i)])],
                  1, 0, <<>>))

\* Division of l by the whole number d > 0, from the highest group down.
RECURSIVE LDivFrom(_, _, _, _, _)
LDivFrom(l, d, i, rem, quot) ==
    IF i = 0
    THEN [quot |-> quot, rem |-> rem]
    ELSE LET t == rem * LimbBase + l[i]
         IN LDivFrom(l, d, i - 1, t % d, <<t \div d>> \o quot)

DZero == [sign |-> 0, m |-> <<>>, e |-> 0]

\* The record of sign * m * 2^e with m odd.
Canon(sign, m, e) ==
    IF m = <<>>
    THEN DZero
    ELSE LET z == MinOf({i \in DOMAIN m : m[i] = 1}) - 1
         IN [sign |-> sign, m |-> SubSeq(m, z + 1, Len(m)), e |-> e + z]

\* Round sign * m * 2^e to SignificandBits bits: to nearest, ties to even.
RoundToDouble(sign, m, e) ==
    LET d == Len(m) - SignificandBits
    IN IF d <= 0
       THEN Canon(sign, m, e)
       ELSE LET kept == SubSeq(m, d + 1, Len(m))
                sticky == \E i \in 1..(d - 1) : m[i] = 1
                up == m[d] = 1 /\ (sticky \/ kept[1] = 1)
            IN Canon(sign, IF up THEN BAdd(kept, <<1>>) ELSE kept, e + d)

DInt(i) == IF i = 0 THEN DZero
           ELSE Canon(IF i < 0 THEN -1 ELSE 1, NatBits(Abs(i)), 0)

DNeg(x) == [x EXCEPT !.sign = -x.sign]

DAdd(x, y) ==
    IF x.sign = 0 THEN y
    ELSE IF y.sign = 0 THEN x
    ELSE LET e == MinOf({x.e, y.e})
             a == BShift(x.m, x.e - e)
             b == BShift(y.m, y.e - e)
         IN IF x.sign = y.sign THEN RoundToDouble(x.sign, BAdd(a, b), e)
            ELSE IF a = b THEN DZero
            ELSE IF BLess(b, a) THEN RoundToDouble(x.sign, BSub(a, b), e)
            ELSE RoundToDouble(y.sign, BSub(b, a), e)

DSub(x, y) == DAdd(x, DNeg(y))

DMul(x, y) ==
    IF x.sign = 0 \/ y.sign = 0 THEN DZero
    ELSE RoundToDouble(x.sign * y.sign, BMul(x.m, y.m), x.e + y.e)

\* x / d for a whole number d # 0 (the code divides by n, by denominator
\* and by n - 2): the quotient is taken to two bits more than the
\* significand, and a remainder that is not zero is kept as one more low bit.
DDiv(x, d) ==
    IF x.sign = 0 THEN DZero
    ELSE LET k == SignificandBits + 2 + Len(NatBits(Abs(d)))
             n == Limbs(BShift(x.m, k))
             qr == LDivFrom(n, Abs(d), Len(n), 0, <<>>)
             sign == IF d < 0 THEN -x.sign ELSE x.sign
         IN IF qr.rem = 0
            THEN RoundToDouble(sign, Bits(qr.quot), x.e - k)
            ELSE RoundToDouble(sign, <<1>> \o Bits(qr.quot), x.e - k - 1)

RECURSIVE DSumSeq(_)
DSumSeq(q) ==
    IF q = <<>> THEN DZero
    ELSE DAdd(DSumSeq(SubSeq(q, 1, Len(q) - 1)), q[Len(q)])

DoubleNull ==
    [null |-> TRUE, slope |-> DZero, intercept |-> DZero, n |-> 0,
     meanX |-> DZero, Sxx |-> DZero, residualVariance |-> DZero]

\* The four sums and the denominator are sums and products of small
\* integers, which binary64 holds exactly; every later step rounds.
\* residualStdErr is Math.sqrt(residualVariance), which is 0 exactly when
\* residualVariance is.
calculateLinearRegressionDouble(data) ==
    LET n == Len(data)
        sumX == SumSeq([i \in 1..n |-> data[i].x])
        sumY == SumSeq([i \in 1..n |-> data[i].y])
        sumXY == SumSeq([i \in 1..n |-> data[i].x * data[i].y])
        sumX2 == SumSeq([i \in 1..n |-> data[i].x * data[i].x])
        denominator == Denominator(n, sumX, sumX2)
    IN IF TooFewPoints(n) THEN DoubleNull
       ELSE IF denominator = 0 THEN DoubleNull
       ELSE LET meanX == DDiv(DInt(sumX), n)
                meanY == DDiv(DInt(sumY), n)
                slope == DDiv(DInt(n * sumXY - sumX * sumY), denominator)
                intercept == DSub(meanY, DMul(slope, meanX))
                DX2(pt) == LET dx == DSub(DInt(pt.x), meanX) IN DMul(dx, dx)
                DY2(pt) == LET dy == DSub(DInt(pt.y),
                                          DAdd(DMul(slope, DInt(pt.x)), intercept))
                           IN DMul(dy, dy)
            IN IF n < 3
               THEN [null |-> FALSE, slope |-> slope, intercept |-> intercept,
                     n |-> n, meanX |-> meanX, Sxx |-> DZero,
                     residualVariance |-> DZero]
               ELSE [null |-> FALSE, slope |-> slope, intercept |-> intercept,
                     n |-> n, meanX |-> meanX,
                     Sxx |-> DSumSeq([i \in 1..n |-> DX2(data[i])]),
                     residualVariance |->
                        DDiv(DSumSeq([i \in 1..n |-> DY2(data[i])]),
                             n - 2)]

\* Inputs: points with integer coordinates on a line y = a*x + b.
LineSlopes == {-1, 1, 2}
LineIntercepts == {0, 1}
LineXs == 0..3
LineInputs ==
    {[i \in 1..n |-> [x |-> xs[i], y |-> a * xs[i] + b]] :
        <<a, b, n, xs>> \in
            {t \in LineSlopes \X LineIntercepts \X (2..MaxPoints)
                       \X (UNION {[1..k -> LineXs] : k \in 2..MaxPoints}) :
                Len(t[4]) = t[3]}}

CallCalculateLinearRegressionDouble ==
    /\ ~regOut.done
    /\ regOut' = [done |-> TRUE, ret |-> calculateLinearRegressionDouble(regData)]
    /\ UNCHANGED regData

RegDoubleInit ==
    /\ regData \in LineInputs
    /\ regOut = [done |-> FALSE, ret |-> DoubleNull]
    /\ HexIdle /\ MergeIdle /\ CallIdle /\ PairIdle /\ DiskIdle /\ BandIdle
RegDoubleNext ==
    CallCalculateLinearRegressionDouble
        /\ UNCHANGED <<hexVars, mergeVars, callVars, pairVars, diskVars, bandVars>>
SpecRegDouble == RegDoubleInit /\ [][RegDoubleNext]_vars

-----------------------------------------------------------------------------
(* The confidence bands of createNormalDistributionChart in the arithmetic  *)
(* the engine uses: startPixel and endPixel of each band are Math.floor and *)
(* Math.ceil of a binary64 value, which every *, - and / on the way has     *)
(* rounded.  On the canvases of the entry-point model (MaxWidth) no exact   *)
(* position is a whole number and the rounding does not show; it does where *)
(* primaryAxisSize * (3.5 - z) / 7 is whole.                                *)

BitsValue(b) == SumSeq([i \in 1..Len(b) |-> b[i] * 2 ^ (i - 1)])

\* The whole number a binary64 value holds, when it holds one.
DWhole(x) == x.sign * BitsValue(x.m) * 2 ^ x.e

\* Math.floor and Math.ceil of a binary64 value
DFloor(x) ==
    IF x.sign = 0 THEN 0
    ELSE IF x.e >= 0 THEN DWhole(x)
    ELSE LET q == BitsValue(SubSeq(x.m, 1 - x.e, Len(x.m)))
         IN IF x.sign > 0 THEN q ELSE -q - 1

DCeil(x) == IF x.sign = 0 \/ x.e >= 0 THEN DFloor(x) ELSE DFloor(x) + 1

\* Z_SCORES[ci.level]: the binary64 value of the literal 1.0, 1.96 or 2.58
ZScoreDouble(level) == DDiv(DInt(ZScore(level)), 100)

\* primaryAxisSize * (x - minXData) / xDataRange with range = 3.5 * stdDev,
\* minXData = mean - range, maxXData = mean + range and
\* xDataRange = maxXData - minXData, which is the whole number 7 * stdDev
\* for the whole means and deviations of the inputs.
AxisPositionDouble(size, mean, stdDev, x) ==
    LET range == DMul(DDiv(DInt(35), 10), DInt(stdDev))
        minXData == DSub(DInt(mean), range)
        maxXData == DAdd(DInt(mean), range)
        xDataRange == DSub(maxXData, minXData)
    IN DDiv(DMul(DInt(size), DSub(x, minXData)), DWhole(xDataRange))

\* startPixel and endPixel of one band: from ciMinX up when vertical, from
\* ciMaxX down when horizontal.
PixelInterval(size, mean, stdDev, orientation, level) ==
    LET z == ZScoreDouble(level)
        ciMinX == DSub(DInt(mean), DMul(z, DInt(stdDev)))
        ciMaxX == DAdd(DInt(mean), DMul(z, DInt(stdDev)))
        AtMin == AxisPositionDouble(size, mean, stdDev, ciMinX)
        AtMax == AxisPositionDouble(size, mean, stdDev, ciMaxX)
    IN IF orientation = "vertical"
       THEN [startPixel |-> DFloor(AtMin), endPixel |-> DCeil(AtMax)]
       ELSE [startPixel |-> DFloor(AtMax), endPixel |-> DCeil(AtMin)]

\* The levels that are keys of Z_SCORES.
SupportedLevels == {68, 95, 99}

MaxAxisSize == 50   \* primaryAxisSize 2..MaxAxisSize
BandMeans == {0, 3, 100}
BandStdDevs == {1, 2, 5}
BandInputs ==
    [size : 2..MaxAxisSize, mean : BandMeans, stdDev : BandStdDevs,
     orientation : {"vertical", "horizontal"}]

CallConfidenceBands ==
    /\ ~bandOut.done
    /\ bandOut' =
        [done |-> TRUE,
         bands |-> [level \in SupportedLevels |->
                        PixelInterval(bandIn.size, bandIn.mean, bandIn.stdDev,
                                      bandIn.orientation, level)]]
    /\ UNCHANGED bandIn

BandInit ==
    /\ bandIn \in BandInputs
    /\ bandOut = NoBands
    /\ HexIdle /\ MergeIdle /\ RegIdle /\ CallIdle /\ PairIdle /\ DiskIdle
BandNext ==
    CallConfidenceBands
        /\ UNCHANGED <<hexVars, mergeVars, regVars, callVars, pairVars, diskVars>>
SpecBand == BandInit /\ [][BandNext]_vars

-----------------------------------------------------------------------------
(* Two invocations side by side, where the host runs them on two threads:   *)
(* each goes through its entry point in steps, and between two steps of one *)
(* the other may take any number of its own.                                *)

Invocations == {1, 2}

RunChart(c, opts, e) ==
    CASE c = "functionGraph" -> RunFunctionGraph(opts, e)
      [] c = "polarGraph" -> RunPolarGraph(opts, e)
      [] c = "lineChart" -> RunLineChart(opts, e)
      [] c = "pieChart" -> RunPieChart(opts, e)
      [] c = "barChart" -> RunBarChart(opts, e)
      [] c = "scatterPlot" -> RunScatterPlot(opts, e)
      [] c = "normalDistributionChart" -> RunNormalDistributionChart(opts, e)

ChartFrom(c, cfg, path, e) ==
    CASE c = "functionGraph" -> FunctionGraphFrom(cfg, path, e)
      [] c = "polarGraph" -> PolarGraphFrom(cfg, path, e)
      [] c = "lineChart" -> LineChartFrom(cfg, path, e)
      [] c = "pieChart" -> PieChartFrom(cfg, path, e)
      [] c = "barChart" -> BarChartFrom(cfg, path, e)
      [] c = "scatterPlot" -> ScatterPlotFrom(cfg, path, e)
      [] c = "normalDistributionChart" -> NormalDistributionChartFrom(cfg, path, e)

\* An object kept in one place of the module, the same for every call.
AllocAtModuleLevel(kind, i) == <<kind, 0>>

\* const defaults = {...}, let config = {}, new Float32Array(...): the
\* expression is inside the function body, so each call creates its own
\* object; a cell of the heap is named by the kind of object and the call.
Alloc(kind, i) == <<kind, i>>

Store(h, cell, v) == [c \in DOMAIN h \cup {cell} |-> IF c = cell THEN v ELSE h[c]]

\* What pdfCache holds: one density per index of the primary axis, each
\* determined by the index, the mean and the standard deviation.
PdfCacheOf(cfg) ==
    [size |-> PrimaryAxisSize(cfg), mean |-> cfg["mean"], stdDev |-> cfg["stdDev"]]

\* The call fills pdfCache: it is createNormalDistributionChart and gets as
\* far as the background.
ReachesPdfCache(c, cfg, path, e) ==
    /\ c = "normalDistributionChart"
    /\ ~SortLevelsThrows(cfg["confidenceLevels"])
    /\ HasEvent(NormalDistributionChartBody(cfg, path, e).ev, "drawPaint")

\* The calls of the pairs: two of createLineChart or two of
\* createNormalDistributionChart, each with its options and its platform.
PairOptions(c) ==
    IF c = "lineChart"
    THEN {OptionObject(r) :
            r \in [path : {ABSENT, Str("a.png"), Str("b.png")},
                   data : {Arr(<<[x |-> 1, y |-> 1], [x |-> 2, y |-> 3]>>),
                           Arr(<<[x |-> 1, y |-> 1]>>)},
                   width : {ABSENT, Num(0)}]}
    ELSE {OptionObject(r) :
            r \in [path : {ABSENT, Str("a.png"), Str("b.png")},
                   width : {Num(2), Num(3)},
                   stdDev : {ABSENT, Num(2)}]}

\* Nothing of the platform fails during the two calls.
PairEnvironments == {e \in Environments(0) : e.conds = {}}

NotStarted(c, opts, e) ==
    [pc |-> "start", chart |-> c, options |-> opts, env |-> e, path |-> UNDEF,
     events |-> <<>>, result |-> UNDEF, outcome |-> "none",
     cacheRead |-> <<>>, otherAtRender |-> "none"]

Other(i) == 3 - i

Step(i, pc, fields) ==
    inv' = [inv EXCEPT ![i] = [k \in DOMAIN inv[i] |->
                                    IF k = "pc" THEN pc
                                    ELSE IF k \in DOMAIN fields THEN fields[k]
                                    ELSE inv[i][k]]]

\* const defaults = { ... }
BuildDefaults(i) ==
    /\ inv[i].pc = "start"
    /\ heap' = Store(heap, Alloc("defaults", i), DefaultsOf(inv[i].chart))
    /\ Step(i, "defaults", <<>>)

\* const config = ChartUtils.mergeOptions(defaults, options)
MergeIntoConfig(i) ==
    /\ inv[i].pc = "defaults"
    /\ heap' = Store(heap, Alloc("config", i),
                     mergeOptions(heap[Alloc("defaults", i)], inv[i].options))
    /\ Step(i, "merged", <<>>)

\* if (!config.path) config.path = ...
ResolvePath(i) ==
    /\ inv[i].pc = "merged"
    /\ LET cfg == heap[Alloc("config", i)]
           path == ResolvedPath(cfg, inv[i].chart, inv[i].env)
       IN /\ heap' = Store(heap, Alloc("config", i), WithPath(cfg, path))
          /\ Step(i, "resolved", [path |-> path])

\* const pdfCache = new Float32Array(primaryAxisSize), and the loop that
\* fills it
FillPdfCache(i) ==
    /\ inv[i].pc = "resolved"
    /\ LET cfg == heap[Alloc("config", i)]
       IN /\ ReachesPdfCache(inv[i].chart, cfg, inv[i].path, inv[i].env)
          /\ heap' = Store(heap, Alloc("pdfCache", i), PdfCacheOf(cfg))
    /\ Step(i, "cached", <<>>)

\* The rest of the entry point: the checks, the drawing from config (and
\* from pdfCache), the save, the return.
RenderAndReturn(i) ==
    /\ LET cfg == heap[Alloc("config", i)]
           r == ChartFrom(inv[i].chart, cfg, inv[i].path, inv[i].env)
       IN /\ \/ inv[i].pc = "cached"
             \/ /\ inv[i].pc = "resolved"
                /\ ~ReachesPdfCache(inv[i].chart, cfg, inv[i].path, inv[i].env)
          /\ Step(i, "done",
                  [events |-> r.events, result |-> r.result, outcome |-> r.outcome,
                   cacheRead |-> IF inv[i].pc = "cached"
                                 THEN <<heap[Alloc("pdfCache", i)]>> ELSE <<>>,
                   otherAtRender |-> inv[Other(i)].pc])
    /\ UNCHANGED heap

PairInit ==
    /\ \E c \in {"lineChart", "normalDistributionChart"} :
            inv \in [Invocations ->
                        {NotStarted(c, opts, e) :
                            opts \in PairOptions(c), e \in PairEnvironments}]
    /\ heap = <<>>
    /\ HexIdle /\ MergeIdle /\ RegIdle /\ CallIdle /\ DiskIdle /\ BandIdle

PairNext ==
    /\ \E i \in Invocations :
        \/ BuildDefaults(i)
        \/ MergeIntoConfig(i)
        \/ ResolvePath(i)
        \/ FillPdfCache(i)
        \/ RenderAndReturn(i)
    /\ UNCHANGED <<hexVars, mergeVars, regVars, callVars, diskVars, bandVars>>

SpecPair == PairInit /\ [][PairNext]_vars

-----------------------------------------------------------------------------
(* The module in use: calls of the entry points, one after the other *)

\* The timer of a deferred deletion expires and its callback runs, the
\* removal succeeding or throwing; nothing of the call that scheduled it is
\* in its reach.
TimerFires ==
    /\ timers # <<>>
    /\ \E removeThrows \in BOOLEAN :
            timerEvents' = timerEvents \o DeferredDelete(Head(timers), removeThrows)
    /\ timers' = Tail(timers)
    /\ UNCHANGED <<phase, chart, options, env, config, outPath, result, outcome,
                   events, hexVars, mergeVars, regVars, pairVars, diskVars, bandVars>>

\* The caller takes the returned value (or the exception) and goes on; the
\* model follows a call until the deletion it scheduled has run.
CallerResumes ==
    /\ phase = "returned" /\ timers = <<>>
    /\ phase' = "idle" /\ chart' = "none" /\ options' = UNDEF
    /\ env' = NoEnv /\ config' = EmptyObject /\ outPath' = UNDEF
    /\ result' = UNDEF /\ outcome' = "none" /\ events' = <<>>
    /\ timerEvents' = <<>>
    /\ UNCHANGED <<timers, hexVars, mergeVars, regVars, pairVars, diskVars, bandVars>>

Init == HexIdle /\ MergeIdle /\ RegIdle /\ CallIdle /\ PairIdle /\ DiskIdle /\ BandIdle

Next ==
    \/ createFunctionGraph
    \/ createPolarGraph
    \/ createLineChart
    \/ createPieChart
    \/ createBarChart
    \/ createScatterPlot
    \/ createNormalDistributionChart
    \/ TimerFires
    \/ CallerResumes

Spec == Init /\ [][Next]_vars

-----------------------------------------------------------------------------
(* Several calls over time and the files they leave.  Each call runs to     *)
(* completion; a deferred deletion runs deleteDelay after its call, so any  *)
(* number of later calls may come before it.  Date.now() has the resolution *)
(* of a millisecond, and two calls may read the same value.                 *)

MaxCalls == 3

DiskCharts == {"lineChart", "pieChart"}

DiskData(c) ==
    IF c = "lineChart" THEN Arr(<<[x |-> 1, y |-> 1], [x |-> 2, y |-> 3]>>)
    ELSE Arr(<<[label |-> "B", value |-> 10]>>)

DiskOptions(c) ==
    {OptionObject(r) :
        r \in [path : {ABSENT, Str("out.png")}, autoDelete : {ABSENT, Bool(TRUE)},
               deleteDelay : {ABSENT, Num(0)}, data : {UNDEF, DiskData(c)}]}

\* new FileOutputStream(path) creates the file or replaces the one there.
FilesAfter(files, r, id) ==
    IF HasEvent(r.events, "open")
    THEN [p \in DOMAIN files \cup {r.path} |-> IF p = r.path THEN id ELSE files[p]]
    ELSE files

\* One call of an entry point, the calls + 1st.
Invoke ==
    /\ calls < MaxCalls
    /\ \E c \in DiskCharts :
        \E opts \in DiskOptions(c), e \in Environments(0) :
            LET r == RunChart(c, opts, e)
                scheduled == PendingTimers(r.events)
            IN /\ disk' = FilesAfter(disk, r, calls + 1)
               /\ alarms' = alarms \cup {[path |-> scheduled[i], by |-> calls + 1] :
                                            i \in DOMAIN scheduled}
    /\ calls' = calls + 1
    /\ UNCHANGED <<removals, hexVars, mergeVars, regVars, callVars, pairVars, bandVars>>

\* The callback of setTimeout runs: FileStream.remove(path) removes the file
\* that is at the path now.
AlarmFires ==
    /\ \E a \in alarms, removeThrows \in BOOLEAN :
        /\ alarms' = alarms \ {a}
        /\ IF HasEvent(DeferredDelete(a.path, removeThrows), "remove")
              /\ a.path \in DOMAIN disk
           THEN /\ disk' = [p \in DOMAIN disk \ {a.path} |-> disk[p]]
                /\ removals' = Append(removals, [path |-> a.path, by |-> a.by,
                                                 of |-> disk[a.path]])
           ELSE UNCHANGED <<disk, removals>>
    /\ UNCHANGED <<calls, hexVars, mergeVars, regVars, callVars, pairVars, bandVars>>

DiskNext == Invoke \/ AlarmFires
SpecDisk == Init /\ [][DiskNext]_vars

-----------------------------------------------------------------------------
(* Properties *)

Returned == phase = "returned"

OwnOptions == IF options.kind = "object" THEN options.val.own ELSE EmptyObject

\* No directory, bitmap, canvas, stream or timer was touched: at most the log.
NothingRendered == \A i \in 1..Len(events) : events[i].op = "log"

\* The path commands of the sampled curve, in order.
PathCommands == SelectSeq(events, LAMBDA ev : ev.op \in {"moveTo", "lineTo"})

\* The field an entry point requires.
RequiredField(c) ==
    IF c \in {"functionGraph", "polarGraph"} THEN "formula" ELSE "data"

RequiringCharts == Charts \ {"normalDistributionChart"}

\* undefined, null, the empty string, the empty array
AbsentOrEmpty(v) ==
    \/ v.kind \in {"undefined", "null"}
    \/ v.kind = "string" /\ v.val = ""
    \/ v.kind = "array" /\ Len(v.val) = 0

\* C1: whatever the options and whatever fails on the platform, each of the
\* seven entry points ends by returning a path string or null; no exception
\* reaches the caller.
C1_NoExceptionEscapes ==
    Returned => outcome = "return" /\ (result = NULL \/ result.kind = "string")

\* C2: in the six entry points with a required field, an absent or empty
\* field (undefined, null, empty string, empty array) makes the call return
\* null at once, with no bitmap, no draw command and no file.
C2_EmptyFieldRejected ==
    (Returned /\ chart \in RequiringCharts
        /\ AbsentOrEmpty(CGet(config, RequiredField(chart))))
    => result = NULL /\ outcome = "return" /\ NothingRendered

\* C2 as amended: a falsy required field (undefined, null, empty string) in
\* any of the six entry points, and an empty data array in createLineChart
\* and createBarChart, make the call return null at once with nothing
\* rendered.
C2_FalsyFieldRejected ==
    (Returned /\ chart \in RequiringCharts
        /\ LET v == CGet(config, RequiredField(chart))
           IN \/ v.kind \in {"undefined", "null"}
              \/ v.kind = "string" /\ v.val = ""
              \/ chart \in {"lineChart", "barChart"} /\ v.kind = "array"
                    /\ Len(v.val) = 0)
    => result = NULL /\ outcome = "return" /\ NothingRendered

C2_Witness ==
    /\ Returned /\ chart = "barChart"
    /\ CGet(config, "data") = Arr(<<>>)
    /\ result = NULL /\ NothingRendered

\* C3: in createFunctionGraph and createPolarGraph a missing formula, or one
\* the evaluator cannot be built from, ends the call with null: no directory
\* is created, no bitmap allocated, no stream opened, no timer scheduled.
C3_BadFormulaAborts ==
    (Returned /\ chart \in {"functionGraph", "polarGraph"}
        /\ LET f == CGet(config, "formula")
           IN ~Truthy(f) \/ f = Str("("))
    => /\ result = NULL /\ outcome = "return"
       /\ \A i \in 1..Len(events) :
            events[i].op \notin {"mkdirs", "createBitmap", "open", "compress",
                                 "setTimeout"}

C3_Witness ==
    /\ Returned /\ chart = "polarGraph"
    /\ CGet(config, "formula") = Str("(")
    /\ result = NULL /\ outcome = "return" /\ NothingRendered

\* C4: on every exit path after the bitmap was allocated, the bitmap is
\* recycled and an opened stream is closed before the caller is resumed.
C4_ResourcesReleased ==
    (Returned /\ HasEvent(events, "createBitmap"))
    => /\ HasEvent(events, "recycle")
       /\ HasEvent(events, "open") => HasEvent(events, "close")

\* The calls in which nothing but the formula can fail: the platform works,
\* the size and the colours are the defaults or valid.
OnlyFormulaCanFail ==
    /\ env.conds \subseteq {"dirExists"}
    /\ config["width"].kind = "number" /\ config["lineColor"].kind = "chars"

FiniteSamples == Cardinality({i \in DOMAIN env.samples : env.samples[i] = "finite"})

\* C5: in both samplers an exception of the formula at a sample skips that
\* sample alone: the other samples are still evaluated (every finite one
\* yields its path command) and the call returns the output path.
C5_SampleExceptionSkipped ==
    (Returned /\ chart \in {"functionGraph", "polarGraph"}
        /\ IsCallerFunction(CGet(config, "formula"))
        /\ OnlyFormulaCanFail
        /\ \E i \in DOMAIN env.samples : env.samples[i] = "throw")
    => /\ outcome = "return" /\ result = outPath
       /\ Len(PathCommands) = FiniteSamples

\* The sampled x of pixel column i, times 2 * scale: its sign is the sign of x.
SampledXSign(i) == 2 * i - config["width"].val

\* C6: createFunctionGraph with "1/x", for every width >= 2 and positive
\* scale whose sampled x values are both negative and positive, draws at
\* least two segments, and no line joins a sample with x < 0 to one with
\* x > 0.
C6_ReciprocalSplitsAtZero ==
    (Returned /\ chart = "functionGraph" /\ CGet(config, "formula") = Str("1/x")
        /\ result = outPath /\ outcome = "return"
        /\ \E i, j \in 0..(config["width"].val - 1) :
                SampledXSign(i) < 0 /\ SampledXSign(j) > 0)
    => /\ CountEvents(events, "moveTo") >= 2
       /\ \A k \in 1..Len(events) :
            events[k].op = "lineTo" =>
                ~(SampledXSign(events[k].args[1] - 1) < 0
                  /\ SampledXSign(events[k].args[1]) > 0)

\* The value of the two digits at positions i and i + 1.
PairValue(s, i) == 16 * DigitValue(s[i]) + DigitValue(s[i + 1])

WellFormedColor(v) ==
    /\ v.kind = "chars" /\ Len(v.val) \in {7, 9} /\ v.val[1] = "#"
    /\ \A i \in 2..Len(v.val) : DigitValue(v.val[i]) >= 0

\* C7: on '#' followed by 6 or 8 hexadecimal digits of either case hexToARGB
\* returns [255, RR, GG, BB], respectively [AA, RR, GG, BB], each channel the
\* value of its two digits, also when AA >= 0x80.
C7_HexChannels ==
    (hexOut.done /\ WellFormedColor(hexIn))
    => /\ hexOut.ret.ok
       /\ LET s == hexIn.val
          IN hexOut.ret.val =
                IF Len(s) = 7
                THEN <<255, PairValue(s, 2), PairValue(s, 4), PairValue(s, 6)>>
                ELSE <<PairValue(s, 2), PairValue(s, 4), PairValue(s, 6),
                       PairValue(s, 8)>>

C7_Witness ==
    /\ hexOut.done
    /\ hexIn = Chars(<<"#","8","0","1","1","2","2","3","3">>)
    /\ hexOut.ret.val = <<128, 17, 34, 51>>

MergeOwn == IF mOptions.kind = "object" THEN mOptions.val.own ELSE EmptyObject

\* C8: mergeOptions(defaults, options) has the keys of defaults and the own
\* keys of options, with the value of options at each own key and the
\* default elsewhere: an empty, null or undefined options gives defaults,
\* {width: 1} changes width alone, unknown own keys are carried through.
C8_MergeIsOverride ==
    mConfig.done =>
        /\ DOMAIN mConfig.ret = DOMAIN mDefaults \cup DOMAIN MergeOwn
        /\ \A k \in DOMAIN mConfig.ret :
              mConfig.ret[k] = IF k \in DOMAIN MergeOwn THEN MergeOwn[k]
                               ELSE mDefaults[k]
        /\ DOMAIN MergeOwn = {} => mConfig.ret = mDefaults
        /\ MergeOwn = [width |-> Num(1)] =>
              /\ mConfig.ret["width"] = Num(1)
              /\ DOMAIN mConfig.ret = DOMAIN mDefaults
              /\ \A k \in DOMAIN mDefaults \ {"width"} : mConfig.ret[k] = mDefaults[k]

C8_Witness ==
    /\ mConfig.done /\ mOptions.kind = "object"
    /\ "extra" \in DOMAIN mOptions.val.own
    /\ "inherited" \in DOMAIN mOptions.val.proto
    /\ "extra" \in DOMAIN mConfig.ret /\ "inherited" \notin DOMAIN mConfig.ret
    /\ "width" \in DOMAIN mOptions.val.proto /\ "width" \notin DOMAIN mOptions.val.own
    /\ mConfig.ret["width"] = mDefaults["width"]

ConcretePath(v) == v.kind = "string" /\ v.val # ""

\* C9: after the configuration is resolved, whatever the options (an
\* explicit undefined at a defaulted key included), the output path is
\* concrete and no key that has a default holds undefined.
C9_NothingUndefined ==
    Returned =>
        /\ ConcretePath(outPath)
        /\ \A k \in DOMAIN DefaultsOf(chart) \ {"path"} : config[k] # UNDEF

\* C9 as amended: the resolved output path is concrete (the caller's path if
\* it is truthy, otherwise the synthesized one), and a key that has a default
\* holds undefined exactly when the caller's record lists that key with the
\* explicit value undefined.
C9_UndefinedOnlyIfGiven ==
    Returned =>
        /\ ConcretePath(outPath)
        /\ outPath = IF "path" \in DOMAIN OwnOptions /\ Truthy(OwnOptions["path"])
                     THEN OwnOptions["path"]
                     ELSE Str("sdcard/msgbot/charts/" \o chart \o "_"
                              \o ToString(env.now) \o ".png")
        /\ chart # "barChart" => config["path"] = outPath
        /\ \A k \in DOMAIN DefaultsOf(chart) \ {"path"} :
              config[k] = UNDEF <=> (k \in DOMAIN OwnOptions /\ OwnOptions[k] = UNDEF)

C9_Witness ==
    /\ Returned /\ chart = "lineChart"
    /\ "width" \in DOMAIN OwnOptions /\ OwnOptions["width"] = UNDEF
    /\ config["width"] = UNDEF
    /\ "path" \notin DOMAIN OwnOptions
    /\ outPath = Str("sdcard/msgbot/charts/lineChart_1.png")

AllSameX(data) == \A i, j \in 1..Len(data) : data[i].x = data[j].x

\* C10: calculateLinearRegression returns null exactly when there are fewer
\* than two points or all points have the same x.
C10_NullIffDegenerate ==
    regOut.done => (regOut.ret.null <=> (Len(regData) < 2 \/ AllSameX(regData)))

C10_Witness ==
    /\ regOut.done /\ regOut.ret.null
    /\ regData = <<[x |-> 5, y |-> 1], [x |-> 5, y |-> 2]>>

\* The commands issued on the canvas, in order.
DrawCommands ==
    SelectSeq(events, LAMBDA ev : ev.op \in {"drawPaint", "drawText", "drawArc",
                                             "drawRect", "drawLine", "drawCircle",
                                             "drawPath", "drawChart"})

\* Nothing outside the formula or the data can fail: the platform works,
\* the size is a positive number and every colour decodes.
PlatformWorks ==
    /\ env.conds \subseteq {"dirExists"}
    /\ config["width"].kind = "number" /\ config["width"].val > 0
    /\ \A k \in DOMAIN DefaultsOf(chart) :
            DefaultsOf(chart)[k].kind = "chars" => hexToARGB(config[k]).ok

DataSum == SumSeq([i \in 1..Len(config["data"].val) |-> config["data"].val[i].value])

\* C11: createPieChart with a data array whose values sum to 0 (all zero,
\* cancelling, or empty) takes no quotient by the total: it draws no arc, no
\* legend square and no legend text, only the background and then the one
\* centred placeholder text, and returns the output path.
C11_ZeroTotalPlaceholder ==
    (Returned /\ chart = "pieChart" /\ CGet(config, "data").kind = "array"
        /\ DataSum = 0)
    => /\ \A i \in 1..Len(events) :
            /\ events[i].op \notin {"drawArc", "drawRect"}
            /\ events[i].op = "drawText" => events[i].args = <<"no data", "center">>
       /\ Len(DrawCommands) <= 2
       /\ PlatformWorks =>
            /\ [i \in 1..Len(DrawCommands) |-> DrawCommands[i].op]
                    = <<"drawPaint", "drawText">>
            /\ result = outPath /\ outcome = "return"

C11_Witness ==
    /\ Returned /\ chart = "pieChart"
    /\ CGet(config, "data") = Arr(<<[label |-> "B", value |-> 10],
                                    [label |-> "C", value |-> -10]>>)
    /\ PlatformWorks /\ result = outPath
    /\ [i \in 1..Len(DrawCommands) |-> DrawCommands[i].op] = <<"drawPaint", "drawText">>

EventsOf(ops) == SelectSeq(events, LAMBDA ev : ev.op \in ops)

BandCommands == EventsOf({"ciPath.moveTo", "ciPath.lineTo", "ciPath.close"})

RegressionLines ==
    SelectSeq(events, LAMBDA ev : ev.op = "drawLine" /\ ev.args[1] = "regression")

AnalysisAsked ==
    /\ Returned /\ chart = "scatterPlot"
    /\ Truthy(CGet(config, "showConfidenceInterval"))
    /\ CGet(config, "data").kind = "array"
    /\ PlatformWorks

BandFills ==
    LET fills == SelectSeq(events, LAMBDA ev : ev.op = "drawPath" /\ ev.args[1] = "ciPath")
    IN [i \in 1..Len(fills) |-> fills[i].args[2]]

CountIn(q, v) == Cardinality({i \in 1..Len(q) : q[i] = v})

\* A call of createNormalDistributionChart that reached the drawing and in
\* which nothing of the platform failed.
NormalChartDrawn ==
    /\ Returned /\ chart = "normalDistributionChart"
    /\ config["confidenceLevels"].kind = "array"
    /\ ~SortLevelsThrows(config["confidenceLevels"])
    /\ PlatformWorks

\* C13: in createNormalDistributionChart, whatever the order of the
\* confidenceLevels array, the bands filled are exactly the entries whose
\* level is 0.68, 0.95 or 0.99, each once, widest (highest level) first; an
\* entry with another level adds no command and the call still returns the
\* output path.
C13_BandsWidestFirst ==
    NormalChartDrawn =>
        LET levels == config["confidenceLevels"].val
        IN /\ \A i \in 1..(Len(BandFills) - 1) :
                    BandFills[i].level >= BandFills[i + 1].level
           /\ \A i \in 1..Len(BandFills) : BandFills[i].level \in {68, 95, 99}
           /\ \A i \in 1..Len(levels) :
                    CountIn(BandFills, levels[i]) =
                        IF levels[i].level \in {68, 95, 99}
                        THEN CountIn(levels, levels[i]) ELSE 0
           /\ CountEvents(events, "ciPath.reset") = Len(BandFills)
           /\ result = outPath /\ outcome = "return"

C13_Witness ==
    /\ NormalChartDrawn
    /\ Len(config["confidenceLevels"].val) = 2
    /\ config["confidenceLevels"].val[1].level = 68
    /\ config["confidenceLevels"].val[2].level = 95
    /\ Len(BandFills) = 2
    /\ BandFills[1].level = 95 /\ BandFills[2].level = 68
    /\ result = outPath

\* The rectangles and texts of the bars, without the title.
BarCommands ==
    SelectSeq(events, LAMBDA ev : \/ ev.op = "drawRect"
                                  \/ ev.op = "drawText" /\ ev.args[1] # "title")

\* The height of a rectangle <<left, top, right, bottom>>
RectHeight(ev) == RSub(ev.args[4], ev.args[2])

VerticalBarsDrawn ==
    /\ Returned /\ chart = "barChart"
    /\ config["orientation"] = Str("vertical")
    /\ CGet(config, "data").kind = "array" /\ Len(config["data"].val) > 0
    /\ \A i \in 1..Len(config["data"].val) : config["data"].val[i].value > 0
    /\ PlatformWorks

\* C14: createBarChart in vertical orientation with positive values draws,
\* in data order, one rectangle per datum of height (value / maxValue) *
\* graphHeight, so that any two heights are in the ratio of their values and
\* the largest bar spans the graph height; each rectangle is followed by the
\* text of the label and the text of String(value).
C14_BarHeightsProportional ==
    VerticalBarsDrawn =>
        LET data == config["data"].val
            graphHeight == config["height"].val - 300
            maxValue == MaxOf({data[i].value : i \in 1..Len(data)})
        IN /\ Len(BarCommands) = 3 * Len(data)
           /\ \A i \in 1..Len(data) :
                /\ BarCommands[3 * i - 2].op = "drawRect"
                /\ RMul(RectHeight(BarCommands[3 * i - 2]), RInt(maxValue))
                        = RInt(data[i].value * graphHeight)
                /\ data[i].value = maxValue =>
                        RectHeight(BarCommands[3 * i - 2]) = RInt(graphHeight)
                /\ BarCommands[3 * i - 1] = Ev("drawText", <<data[i].label>>)
                /\ BarCommands[3 * i] = Ev("drawText", <<ToString(data[i].value)>>)
           /\ \A i, j \in 1..Len(data) :
                RMul(RectHeight(BarCommands[3 * i - 2]), RInt(data[j].value))
                    = RMul(RectHeight(BarCommands[3 * j - 2]), RInt(data[i].value))

C14_Witness ==
    /\ VerticalBarsDrawn
    /\ config["data"].val = <<[label |-> "B", value |-> 10], [label |-> "C", value |-> 20]>>
    /\ Len(BarCommands) = 6
    /\ RectHeight(BarCommands[1]) = RInt(210) /\ RectHeight(BarCommands[4]) = RInt(420)
    /\ BarCommands[2].args = <<"B">> /\ BarCommands[3].args = <<"10">>
    /\ BarCommands[5].args = <<"C">> /\ BarCommands[6].args = <<"20">>

\* C15: when the deferred deletion fails (the removal throws), the failure
\* is written to the log.
C15_DeleteFailureLogged ==
    \A i \in 1..Len(timerEvents) :
        timerEvents[i].op = "remove throws" =>
            \E j \in (i + 1)..Len(timerEvents) : timerEvents[j].op = "log"

\* What invocation i does when it is the only one running, and the output
\* path it then has.
Alone(i) == RunChart(inv[i].chart, inv[i].options, inv[i].env)

AlonePath(i) ==
    ResolvedPath(mergeOptions(DefaultsOf(inv[i].chart), inv[i].options),
                 inv[i].chart, inv[i].env)

FiniteAt(k) == k \in 0..(Len(env.samples) - 1) /\ env.samples[k + 1] = "finite"

\* The samples that begin a maximal run of finite samples.
RunStarts == {k \in 0..(Len(env.samples) - 1) : FiniteAt(k) /\ ~FiniteAt(k - 1)}

\* A call of a sampler in which every sample is a finite or a non-finite
\* number and nothing else fails.
SamplesAreNumbers ==
    /\ Returned /\ chart \in {"functionGraph", "polarGraph"}
    /\ IsCallerFunction(CGet(config, "formula"))
    /\ OnlyFormulaCanFail
    /\ \A k \in DOMAIN env.samples : env.samples[k] # "throw"

\* C17: in both sampling loops, for every sequence of finite and non-finite
\* samples, the path commands are the maximal runs of finite samples: one
\* command per finite sample, in sample order, a moveTo at the first sample
\* of a run and a lineTo at every other one, nothing at a non-finite sample;
\* so the path never begins with a lineTo, no lineTo follows a non-finite
\* sample, and there are as many segments as runs.
C17_SegmentsAreMaximalRuns ==
    SamplesAreNumbers =>
        /\ Len(PathCommands) = FiniteSamples
        /\ \A i \in 1..(Len(PathCommands) - 1) :
                PathCommands[i].args[1] < PathCommands[i + 1].args[1]
        /\ \A i \in 1..Len(PathCommands) :
                LET k == PathCommands[i].args[1]
                IN /\ FiniteAt(k)
                   /\ PathCommands[i].op = "moveTo" <=> k \in RunStarts
        /\ PathCommands # <<>> => PathCommands[1].op = "moveTo"
        /\ CountEvents(events, "moveTo") = Cardinality(RunStarts)

C17_Witness ==
    /\ SamplesAreNumbers /\ chart = "functionGraph"
    /\ env.samples = <<"finite", "nonfinite", "finite", "finite">>
    /\ [i \in 1..Len(PathCommands) |-> PathCommands[i].op]
            = <<"moveTo", "moveTo", "lineTo">>
    /\ result = outPath

\* The points of regData lie on the line y = a*x + b.
OnLine(a, b) == \A i \in 1..Len(regData) : regData[i].y = a * regData[i].x + b

\* C18: for points with integer coordinates that lie exactly on a line
\* y = a*x + b and have at least two distinct x values,
\* calculateLinearRegression returns slope = a and intercept = b, and for
\* three or more such points residualStdErr is exactly 0.
C18_CollinearIsExact ==
    (regOut.done /\ ~AllSameX(regData)) =>
        \A a \in LineSlopes, b \in LineIntercepts :
            OnLine(a, b) =>
                /\ ~regOut.ret.null
                /\ regOut.ret.slope = DInt(a)
                /\ regOut.ret.intercept = DInt(b)
                /\ Len(regData) >= 3 => regOut.ret.residualVariance = DZero

\* A call of createScatterPlot that built the path of a confidence band.
BandDrawn == Returned /\ chart = "scatterPlot" /\ BandCommands # <<>>

\* The x of data space at step i of R between the smallest and largest x.
EvenlySpacedX(data, R, i) ==
    LET minX == MinOf({data[k].x : k \in 1..Len(data)})
        maxX == MaxOf({data[k].x : k \in 1..Len(data)})
    IN RAdd(RInt(minX), Rat((maxX - minX) * i, R))

\* C19: a confidence band of createScatterPlot with resolution R >= 1 is a
\* polygon of exactly 2*(R+1) vertices: the upper boundary at the R+1 evenly
\* spaced x values from minX to maxX in increasing order, then the lower
\* boundary at the same x values in decreasing order, then close(); at each
\* x the margin added above and subtracted below the predicted y is a
\* non-negative number, so the upper boundary is not below the lower one.
C19_BandPolygon ==
    BandDrawn =>
        LET R == config["confidenceIntervalResolution"].val
            data == config["data"].val
            vertex(i) == BandCommands[i].args[1]
        IN /\ R >= 1
           /\ Len(BandCommands) = 2 * (R + 1) + 1
           /\ BandCommands[1].op = "ciPath.moveTo"
           /\ \A i \in 2..(2 * (R + 1)) : BandCommands[i].op = "ciPath.lineTo"
           /\ BandCommands[2 * (R + 1) + 1].op = "ciPath.close"
           /\ \A i \in 0..R :
                /\ vertex(i + 1).side = 1
                /\ vertex(i + 1).x = EvenlySpacedX(data, R, i)
                /\ vertex(2 * (R + 1) - i).side = -1
                /\ vertex(2 * (R + 1) - i).x = vertex(i + 1).x
                /\ vertex(2 * (R + 1) - i).predictedY = vertex(i + 1).predictedY
                /\ vertex(2 * (R + 1) - i).marginSquared = vertex(i + 1).marginSquared
                /\ vertex(i + 1).finite /\ vertex(i + 1).marginSquared[1] >= 0
           /\ \A i \in 1..R : RSub(vertex(i + 1).x, vertex(i).x)[1] > 0
           /\ vertex(1).x = RInt(MinOf({data[k].x : k \in 1..Len(data)}))
           /\ vertex(R + 1).x = RInt(MaxOf({data[k].x : k \in 1..Len(data)}))

C19_Witness ==
    /\ BandDrawn
    /\ config["data"].val = <<[x |-> 1, y |-> 1], [x |-> 1, y |-> 3], [x |-> 3, y |-> 2]>>
    /\ config["confidenceIntervalResolution"].val = 2
    /\ Len(BandCommands) = 7
    /\ BandCommands[2].args[1].x = RInt(2)
    /\ BandCommands[2].args[1].marginSquared[1] > 0
    /\ HasEvent(events, "clipRect")
    /\ result = outPath

\* The evaluations of the density, and the vertices that read the cache.
PdfEvaluations == EventsOf({"pdf"})
CacheReads ==
    SelectSeq(EventsOf({"ciPath.lineTo", "graphPath.moveTo", "graphPath.lineTo"}),
              LAMBDA ev : ev.args[1] = "pdfCache")

\* The position in events of the first command of a band (0 if none).
FirstBandCommand ==
    IF HasEvent(events, "ciPath.reset")
    THEN MinOf({i \in 1..Len(events) : events[i].op = "ciPath.reset"})
    ELSE 0

\* C20: in createNormalDistributionChart the density is evaluated exactly
\* once per pixel index of the primary axis, all evaluations before the
\* first band, and every band vertex and curve vertex reads the cache at an
\* index that lies in 0..primaryAxisSize-1, for any ciResolution, mean and
\* stdDev.
C20_CacheReadsInRange ==
    NormalChartDrawn =>
        LET size == PrimaryAxisSize(config)
        IN /\ [i \in 1..Len(PdfEvaluations) |-> PdfEvaluations[i].args[1]]
                    = [i \in 1..size |-> i - 1]
           /\ FirstBandCommand # 0 =>
                \A i \in 1..Len(events) :
                    events[i].op = "pdf" => i < FirstBandCommand
           /\ \A i \in 1..Len(CacheReads) :
                /\ ~CacheReads[i].args[2].nan
                /\ CacheReads[i].args[2].val \in 0..(size - 1)

Arcs == EventsOf({"drawArc"})
LegendSquares == EventsOf({"drawRect"})

\* A call of createPieChart that drew slices.
SlicesDrawn ==
    /\ Returned /\ chart = "pieChart"
    /\ CGet(config, "data").kind = "array"
    /\ DataSum # 0
    /\ PlatformWorks
    /\ config["colors"].kind = "array" /\ Len(config["colors"].val) > 0

\* C21: in createPieChart with a total other than 0 there is one slice per
\* item, in data order; slice i starts at -90 plus the sweeps of the slices
\* before it and sweeps (value_i / total) * 360 degrees, so that with no
\* negative value the slices follow one another without overlap or gap and
\* the sweeps add up to 360; slice i and its legend square have colour
\* i mod (number of colours), and each legend row is 60 below the one before.
C21_SlicesByCumulativeAngle ==
    SlicesDrawn =>
        LET data == config["data"].val
            colors == config["colors"].val
            sweep(i) == Arcs[i].args[2].val
            start(i) == Arcs[i].args[1].val
        IN /\ Len(Arcs) = Len(data) /\ Len(LegendSquares) = Len(data)
           /\ [i \in 1..Len(DrawCommands) |-> DrawCommands[i].op]
                = [i \in 1..(3 * Len(data) + 1) |->
                      IF i = 1 THEN "drawPaint"
                      ELSE <<"drawArc", "drawRect", "drawText">>[((i - 2) % 3) + 1]]
           /\ \A i \in 1..Len(data) :
                /\ Arcs[i].args[1].finite /\ Arcs[i].args[2].finite
                /\ sweep(i) = Rat(data[i].value * 360, DataSum)
                /\ start(i) = RAdd(RInt(-90), RSumSeq([j \in 1..(i - 1) |-> sweep(j)]))
                /\ Arcs[i].args[3] = colors[((i - 1) % Len(colors)) + 1]
                /\ LegendSquares[i].args[2] = Arcs[i].args[3]
                /\ DrawCommands[3 * i + 1].args[1] = data[i].label
           /\ \A i \in 1..(Len(data) - 1) :
                RSub(LegendSquares[i + 1].args[1], LegendSquares[i].args[1]) = RInt(60)
           /\ (\A i \in 1..Len(data) : data[i].value >= 0) =>
                /\ \A i \in 1..Len(data) : sweep(i)[1] >= 0
                /\ \A i \in 1..(Len(data) - 1) :
                        start(i + 1) = RAdd(start(i), sweep(i))
                /\ RSumSeq([i \in 1..Len(data) |-> sweep(i)]) = RInt(360)
           /\ result = outPath /\ outcome = "return"

C21_Witness ==
    /\ SlicesDrawn
    /\ config["data"].val = <<[label |-> "B", value |-> 10], [label |-> "D", value |-> 30]>>
    /\ Len(config["colors"].val) = 1
    /\ Len(Arcs) = 2
    /\ Arcs[2].args[1].val = RInt(0) /\ Arcs[2].args[2].val = RInt(270)
    /\ Arcs[2].args[3] = Arcs[1].args[3]
    /\ result = outPath

HorizontalBarsDrawn ==
    /\ Returned /\ chart = "barChart"
    /\ config["orientation"] = Str("horizontal")
    /\ CGet(config, "data").kind = "array" /\ Len(config["data"].val) > 0
    /\ PlatformWorks
    /\ config["width"].val - 200 > 0

\* C22: createBarChart in horizontal orientation, for every non-empty data
\* set (positive values, zeros, all zero, all negative) and a positive graph
\* width, draws each bar with length value / (maxValue * 1.1) * graphWidth,
\* and the right edge of every bar is strictly left of
\* padding.left + graphWidth.
C22_HorizontalBarsInside ==
    HorizontalBarsDrawn =>
        LET data == config["data"].val
            graphWidth == config["width"].val - 200
            largest == MaxOf({data[i].value : i \in 1..Len(data)})
            maxValue == IF largest = 0 THEN 1 ELSE largest
        IN /\ Len(BarCommands) = 3 * Len(data)
           /\ \A i \in 1..Len(data) :
                LET rect == BarCommands[3 * i - 2]
                IN /\ rect.op = "drawRect"
                   /\ rect.args[1] = RInt(150)
                   /\ RSub(rect.args[3], rect.args[1])
                        = Rat(data[i].value * graphWidth * 10, maxValue * 11)
                   /\ RSub(RInt(150 + graphWidth), rect.args[3])[1] > 0

AllSameY(data) == \A i, j \in 1..Len(data) : data[i].y = data[j].y

Circles == EventsOf({"drawCircle"})

\* A call of createLineChart or createScatterPlot whose points all have the
\* same y, on a platform where nothing fails.
FlatDataDrawn ==
    /\ Returned /\ chart \in {"lineChart", "scatterPlot"}
    /\ CGet(config, "data").kind = "array"
    /\ Len(config["data"].val) >= (IF chart = "lineChart" THEN 2 ELSE 1)
    /\ AllSameY(config["data"].val)
    /\ PlatformWorks

\* The top and the bottom edge of the plotting area.
PlotTop ==
    IF chart = "lineChart" THEN config["padding"].val.own["top"].val
    ELSE config["padding"].val
PlotBottom ==
    IF chart = "lineChart"
    THEN config["height"].val - config["padding"].val.own["bottom"].val
    ELSE config["height"].val - config["padding"].val

\* C23: in createLineChart, and on the y axis of createScatterPlot, when all
\* y values are equal the range is taken as 1, the call succeeds, and every
\* point is drawn at the vertical middle of the plotting area: its canvas y
\* is the midpoint between the top and the bottom edge.
C23_FlatDataAtMiddle ==
    FlatDataDrawn =>
        /\ result = outPath /\ outcome = "return"
        /\ Len(Circles) = Len(config["data"].val)
        /\ \A i \in 1..Len(Circles) :
                Circles[i].args[3] = Rat(PlotTop + PlotBottom, 2)

\* C24: over any sequence of calls, a deferred deletion removes only the
\* file that the call which scheduled it wrote, never a file written later
\* to the same path by another call.
C24_DeletionRemovesOwnFile ==
    \A i \in 1..Len(removals) : removals[i].by = removals[i].of

\* ToNumber(v) > 0
GreaterThanZero(v) ==
    CASE v.kind = "number" -> v.val > 0
      [] v.kind = "boolean" -> v.val
      [] OTHER -> FALSE

\* The position in events of the first event of the kind op (0 if none).
FirstEvent(op) ==
    IF HasEvent(events, op)
    THEN MinOf({i \in 1..Len(events) : events[i].op = op})
    ELSE 0

\* C25: in every entry point a deletion timer is scheduled at most once per
\* invocation, and only when autoDelete is truthy, deleteDelay > 0 and the
\* image has been written to the stream without error; an invocation that
\* returns null, or has autoDelete false, or deleteDelay <= 0, schedules no
\* deletion, and no file is removed during the invocation.
C25_TimerOnlyAfterWrite ==
    Returned =>
        /\ CountEvents(events, "setTimeout") <= 1
        /\ HasEvent(events, "setTimeout") =>
            /\ Truthy(CGet(config, "autoDelete"))
            /\ GreaterThanZero(CGet(config, "deleteDelay"))
            /\ HasEvent(events, "compress")
            /\ FirstEvent("compress") < FirstEvent("setTimeout")
        /\ (result = NULL \/ ~Truthy(CGet(config, "autoDelete"))
                \/ LessOrEqualZero(CGet(config, "deleteDelay"))) =>
            ~HasEvent(events, "setTimeout")
        /\ ~HasEvent(events, "remove")


\* The lower and the upper end of a band's pixel interval.
LowerPixel(b) == MinOf({b.startPixel, b.endPixel})
UpperPixel(b) == MaxOf({b.startPixel, b.endPixel})

\* The interval the same code gives for the standard distribution.
StandardInterval(level) ==
    PixelInterval(bandIn.size, 0, 1, bandIn.orientation, level)

Within(inner, outer) ==
    LowerPixel(outer) <= LowerPixel(inner) /\ UpperPixel(inner) <= UpperPixel(outer)

\* C26: with stdDev > 0 and primaryAxisSize P >= 2, the pixel interval of
\* each supported band is the same for every mean and stdDev, lies in 0..P,
\* has lower + upper = P, and the 0.68 band lies in the 0.95 band, which lies
\* in the 0.99 band, in both orientations.
C26_BandIntervalsSymmetric ==
    bandOut.done =>
        /\ \A level \in SupportedLevels :
            LET b == bandOut.bands[level]
            IN /\ b = StandardInterval(level)
               /\ 0 <= LowerPixel(b) /\ UpperPixel(b) <= bandIn.size
               /\ LowerPixel(b) + UpperPixel(b) = bandIn.size
        /\ Within(bandOut.bands[68], bandOut.bands[95])
        /\ Within(bandOut.bands[95], bandOut.bands[99])

====
